---- MODULE Spec2Model ----
(***************************************************************************)
(* A model of ecospold2matrix.Ecospold2Matrix: the run of                   *)
(* ecospold_to_Leontief over a small ecospold dataset (extraction of flows  *)
(* and labels, the unsourced-flow resolver, the missing-activity repairer,  *)
(* label completion, assembly of A and F, scaling to Z and G_pro, saving).  *)
(*                                                                          *)
(* Tables (pandas DataFrames) are sequences of records, in row order.  A    *)
(* file id "activity_product" is the pair <<activity, product>>.  Python's  *)
(* None is the string "None", the empty string is "".  Numbers in matrices  *)
(* are exact rationals or NaN; floating-point rounding is not modelled.     *)
(* An exception that leaves ecospold_to_Leontief ends the run in            *)
(* pc = "raised", with err naming the method that raised.                   *)
(***************************************************************************)
EXTENDS Integers, Sequences, FiniteSets, TLC

\* ------------------------------------------------------------------ bounds
MaxPRO == 3
MaxInflows == 2
MaxRuns == 2
MaxRawOutflows == 2
MaxExtractFiles == 2
MaxExtractInflows == 1
MaxElementary == 2
MaxSutCalls == 2
MaxLogCalls == 2
MaxFooRows == 2
MaxFouRows == 2
MaxRawInventory == 2
MaxRawChar == 2
MaxCustom == 1
MaxImax == 2
MaxDecades == 3

\* ------------------------------------------------------------- python values
None == "None"
Blank == ""
Absent == "absent"
NaNstr == "nan"

\* ------------------------------------------------------------- master data
\* products of IntermediateExchanges.xml, activities of ActivityIndex.xml
Products == {"p1", "p2"}
Activities == {"a1", "a2", "a3", "m1"}

\* geography shortname recorded in the spold file of an activity
geographyOf(a) == IF a \in {"a1", "m1"} THEN "g1" ELSE "g2"

\* activity type of an activity, as a string: "0" ordinary, "1" market
activityTypeOf(a) == IF a = "m1" THEN "1" ELSE IF a = "a3" THEN "2" ELSE "0"

\* the name of a spold file, activityId + '_' + productId
fileIdOf(a, p) == <<a, p>>

\* the spold files a dataset may hold
SpoldFiles ==
    { fileIdOf("a1", "p1"), fileIdOf("a1", "p2"), fileIdOf("a2", "p1"),
      fileIdOf("a3", "p1"), fileIdOf("m1", "p1"), fileIdOf("m1", "p2") }

\* activityLinkId values found on the input exchanges of the dataset
LinkChoices == {None, "a2"}

\* --------------------------------------------------------------- rationals
RECURSIVE GCD(_, _)
GCD(a, b) == IF b = 0 THEN a ELSE GCD(b, a % b)

Abs(x) == IF x < 0 THEN 0 - x ELSE x

NaN == [nan |-> TRUE, n |-> 0, d |-> 1]

\* the float n / d, d # 0, in lowest terms with a positive denominator
Rat(n, d) ==
    LET g == GCD(Abs(n), Abs(d))
        s == IF d < 0 THEN 0 - 1 ELSE 1
    IN  [nan |-> FALSE, n |-> (s * n) \div g, d |-> (s * d) \div g]

Num(x) == Rat(x, 1)

\* float multiplication: NaN propagates
Mul(v, w) == IF v.nan \/ w.nan THEN NaN ELSE Rat(v.n * w.n, v.d * w.d)

\* DataFrame.fillna(0) on one cell
FillNa0(v) == IF v.nan THEN Num(0) ELSE v

\* ---------------------------------------------------------- table helpers
Range(s) == { s[k] : k \in 1..Len(s) }

\* rows of table s whose positions satisfy Keep, in row order
RECURSIVE SelectRows(_, _, _)
SelectRows(s, Keep(_), k) ==
    IF k > Len(s) THEN <<>>
    ELSE IF Keep(k) THEN <<s[k]>> \o SelectRows(s, Keep, k + 1)
    ELSE SelectRows(s, Keep, k + 1)

\* sort order of labels: stands for DataFrame.sort(columns=PRO_order)
ActOrder == <<"", "None", "a1", "a2", "a3", "m1">>
ProdOrder == <<"p1", "p2">>
PosIn(seq, x) == CHOOSE k \in 1..Len(seq) : seq[k] = x
LabelRank(f) == Len(ProdOrder) * PosIn(ActOrder, f[1]) + PosIn(ProdOrder, f[2])

RECURSIVE SortedIds(_)
SortedIds(S) ==
    IF S = {} THEN <<>>
    ELSE LET m == CHOOSE x \in S : \A y \in S : LabelRank(x) <= LabelRank(y)
         IN  <<m>> \o SortedIds(S \ {m})

\* PRO.sort(columns=self.PRO_order)
RECURSIVE SortTable(_)
SortTable(t) ==
    IF Len(t) = 0 THEN <<>>
    ELSE LET k == CHOOSE j \in 1..Len(t) :
                     \A l \in 1..Len(t) : LabelRank(t[j].index) <= LabelRank(t[l].index)
         IN  <<t[k]>> \o SortTable(SelectRows(t, LAMBDA j : j # k, 1))

\* all sequences over S of length at most n
RECURSIVE SeqsUpTo(_, _)
SeqsUpTo(S, n) ==
    IF n = 0 THEN {<<>>}
    ELSE LET shorter == SeqsUpTo(S, n - 1)
         IN  shorter \cup { Append(s, x) : s \in { t \in shorter : Len(t) = n - 1 }, x \in S }


\* ------------------------------------------------------------------- state
VARIABLES
    datasetFiles,       \* the *.spold files of sys_dir/datasets (file ids)
    datasetInflows,     \* their intermediateExchange entries with an inputGroup
    datasetOutflows,    \* their intermediateExchange entries with an outputGroup
    datasetElementary,  \* their elementaryExchange entries
    labelsHaveType,     \* the labels get_labels yields carry activityType
    to_csv_kwds,        \* the installed DataFrame.to_csv swallows unknown keywords
    positive_waste,     \* self.positive_waste
    nan2null,           \* self.nan2null
    inflows,            \* self.inflows
    outflows,           \* self.outflows
    elementary_flows,   \* self.elementary_flows
    PRO,                \* self.PRO
    STR,                \* self.STR (index)
    unsourced_flows,    \* self.unsourced_flows
    i,                  \* loop variable i of __fix_flow_sources and of cummulative_lci_check
    logWarnCallable,    \* self.log.warn is still the logger's method
    auditFiles,         \* potentialSources_*.csv files in log_dir
    missing_activities, \* self.missing_activities
    A, F, Z, G_pro,     \* self.A, self.F, self.Z, self.G_pro
    built,              \* which of A/F and Z/G_pro are not None
    saved,              \* file formats written by save_system
    file_formats,       \* the file_formats argument of the last save_system
    U, V, V_prodVol, G_act, \* self.U, self.V, self.V_prodVol, self.G_act
    make_untraceable,   \* the argument of the last build_sut
    sutCalls,           \* number of calls of build_sut so far
    foo, fou,           \* the tables foo and fou of test_execute_log
    changes,            \* the values _updatenull_log returned so far
    raw_inventory,      \* table raw_inventory: cleaned inventory stressor records
    raw_char,           \* table raw_char: cleaned characterisation-method records
    substances,         \* table substances; substId is the row position
    names,              \* table names
    factors,            \* table factors; factorId is the row position
    labels_inventory,   \* table labels_inventory
    labels_char,        \* table labels_char
    labels_out,         \* table labels_out; id is the row position
    obs2char,           \* table obs2char
    unchar_flow,        \* rows written to uncharacterized_flows.csv
    unchar_subst,       \* substances written to uncharacterized_subst.csv
    custom_factors,     \* self._custom_factors
    customLog,          \* log records of the customized factors
    factor_conflicts,   \* logged conflicts between factor values
    C,                  \* self.C
    IMP,                \* self.IMP (index)
    IMP_old,            \* self.IMP_old
    pc,                 \* position in ecospold_to_Leontief
    err,                \* the method whose exception ended the run
    run,                \* number of the current run in this Python process
    handled,            \* log records of __fix_flow_sources: flow and branch taken
    resolved,           \* per ended execution of __fix_flow_sources: its result
    prefer_pickles,     \* self.prefer_pickles
    save_interm,        \* self.save_interm
    flowsPickle,        \* sys_dir/flows.pickle: <<>> when absent, else its three tables
    labelsPickle,       \* sys_dir/rawlabels.pickle: <<>> when absent, else PRO and STR
    loaded,             \* which of flows and labels this run read from a pickle
    rtol,               \* rtol of cummulative_lci_check: mantissa m and decimal exponent e
    imax,               \* imax of cummulative_lci_check
    shelf               \* keys of qualityCheckCummulativeLCI.shelf: the rtol they name

datasetVars == <<datasetFiles, datasetInflows, datasetOutflows, datasetElementary,
                 labelsHaveType, to_csv_kwds, positive_waste, nan2null>>
flowVars == <<inflows, outflows, elementary_flows>>
cacheVars == <<prefer_pickles, save_interm, flowsPickle, labelsPickle, loaded>>
tolVars == <<rtol, imax, shelf>>
matrixVars == <<A, F, Z, G_pro, built>>
sutVars == <<U, V, V_prodVol, G_act, make_untraceable, sutCalls>>
logVars == <<foo, fou, changes>>
charVars == <<raw_inventory, raw_char, substances, names, factors, labels_inventory,
              labels_char, labels_out, obs2char, unchar_flow, unchar_subst,
              custom_factors, customLog, factor_conflicts, C, IMP, IMP_old>>
vars == <<datasetFiles, datasetInflows, datasetOutflows, datasetElementary,
          labelsHaveType, to_csv_kwds, positive_waste, nan2null, inflows, outflows,
          elementary_flows, PRO, STR, unsourced_flows, i, logWarnCallable,
          auditFiles, missing_activities, A, F, Z, G_pro, built, saved,
          file_formats, U, V, V_prodVol, G_act, make_untraceable, sutCalls, foo, fou,
          changes, raw_inventory, raw_char, substances, names, factors,
          labels_inventory, labels_char, labels_out, obs2char, unchar_flow,
          unchar_subst, custom_factors, customLog, factor_conflicts, C, IMP, IMP_old, pc, err,
          run, handled, resolved, prefer_pickles, save_interm, flowsPickle,
          labelsPickle, loaded, rtol, imax, shelf>>

\* ------------------------------------------------------------- extraction
\* list without redundant entries (first occurrences, in order)
deduplicated(raw_list) ==
    SelectRows(raw_list, LAMBDA k : \A j \in 1..(k - 1) : raw_list[j] # raw_list[k], 1)

\* among unique rows, are there non-unique ids?
id_duplicates(rows) ==
    { rows[k].fileId : k \in { l \in 1..Len(rows) :
                               \E j \in 1..(l - 1) : rows[j].fileId = rows[l].fileId } }

\* entries of magnitude zero are ignored
NonZero(entries) == SelectRows(entries, LAMBDA k : entries[k].amount # 0, 1)

\* the outflow table built from the deduplicated outflow list
OutflowTable(outflow_list) ==
    [k \in 1..Len(outflow_list) |->
        [index |-> outflow_list[k].fileId,
         fileId |-> outflow_list[k].fileId,
         productId |-> outflow_list[k].productId,
         amount |-> outflow_list[k].amount,
         productionVolume |-> outflow_list[k].productionVolume]]

\* one label row per spold file, sorted
LabelTable(files, withType) ==
    LET ids == SortedIds(files)
    IN  [k \in 1..Len(ids) |->
            [index |-> ids[k],
             activityId |-> ids[k][1],
             productId |-> ids[k][2],
             geography |-> geographyOf(ids[k][1]),
             activityType |-> IF withType THEN activityTypeOf(ids[k][1]) ELSE Absent,
             comment |-> NaNstr]]

\* ------------------------------------------------- the unsourced-flow resolver
\* boolean vector of product flows without source
nuns(infl, k) == infl[k].sourceActivityId = None

LabelOf(pro, f) == pro[CHOOSE k \in 1..Len(pro) : pro[k].index = f]
InLabels(pro, f) == \E k \in 1..Len(pro) : pro[k].index = f

\* inflows[nuns].reset_index() merged with the labels of the consuming file
MergedUnsourced(infl, pro) ==
    LET keep == SelectRows([k \in 1..Len(infl) |-> k],
                           LAMBDA k : nuns(infl, k) /\ InLabels(pro, infl[k].fileId), 1)
    IN  [j \in 1..Len(keep) |->
            [index |-> keep[j],
             fileId |-> infl[keep[j]].fileId,
             productId |-> infl[keep[j]].productId,
             amount |-> infl[keep[j]].amount,
             geography |-> LabelOf(pro, infl[keep[j]].fileId).geography,
             activityType |-> LabelOf(pro, infl[keep[j]].fileId).activityType]]

\* inflows[nuns], when the merge with the labels failed
PlainUnsourced(infl) ==
    LET keep == SelectRows([k \in 1..Len(infl) |-> k], LAMBDA k : nuns(infl, k), 1)
    IN  [j \in 1..Len(keep) |->
            [index |-> keep[j],
             fileId |-> infl[keep[j]].fileId,
             productId |-> infl[keep[j]].productId,
             amount |-> infl[keep[j]].amount,
             geography |-> Absent,
             activityType |-> Absent]]

boPro(aflow, r) == r.productId = aflow.productId
boGeo(aflow, r) == r.geography = aflow.geography
boMark(aflow, r) == r.activityType = "1"
boMarkGeo(aflow, r) == boGeo(aflow, r) /\ boMark(aflow, r)
boProGeo(aflow, r) == boPro(aflow, r) /\ boGeo(aflow, r)
boProMark(aflow, r) == boPro(aflow, r) /\ boMark(aflow, r)

\* sum(mask)
Sum(pro, aflow, mask(_, _)) == Cardinality({ k \in 1..Len(pro) : mask(aflow, pro[k]) })

\* self.PRO[mask].activityId.values
ActivityIdValues(pro, aflow, mask(_, _)) ==
    LET rows == SelectRows(pro, LAMBDA k : mask(aflow, pro[k]), 1)
    IN  [k \in 1..Len(rows) |-> rows[k].activityId]

\* a resolver that lets any producer of the consumer's geography decide
RuleOf_anyLocalProducer(aflow, pro) ==
    IF aflow.activityType = "0" THEN
        IF Sum(pro, aflow, boPro) = 0 THEN "no_producer"
        ELSE IF Sum(pro, aflow, boPro) = 1 THEN "one_producer"
        ELSE IF Sum(pro, aflow, boPro) = 2 /\ Sum(pro, aflow, boProMark) = 1
             THEN "producer_and_market"
        ELSE IF Sum(pro, aflow, boMarkGeo) = 1 THEN "market_geo"
        ELSE IF Sum(pro, aflow, boProGeo) >= 1 THEN "producer_geo"
        ELSE "ambiguous"
    ELSE IF aflow.activityType = "1" THEN "market_consumer"
    ELSE "other_consumer"

\* a resolver that looks at the producers of the consumer's geography before
\* the markets of that geography
RuleOf_producerGeoFirst(aflow, pro) ==
    IF aflow.activityType = "0" THEN
        IF Sum(pro, aflow, boPro) = 0 THEN "no_producer"
        ELSE IF Sum(pro, aflow, boPro) = 1 THEN "one_producer"
        ELSE IF Sum(pro, aflow, boPro) = 2 /\ Sum(pro, aflow, boProMark) = 1
             THEN "producer_and_market"
        ELSE IF Sum(pro, aflow, boProGeo) = 1 THEN "producer_geo"
        ELSE IF Sum(pro, aflow, boMarkGeo) = 1 THEN "market_geo"
        ELSE "ambiguous"
    ELSE IF aflow.activityType = "1" THEN "market_consumer"
    ELSE "other_consumer"

\* the branch of __fix_flow_sources that handles aflow
RuleOf(aflow, pro) ==
    IF aflow.activityType = "0" THEN
        IF Sum(pro, aflow, boPro) = 0 THEN "no_producer"
        ELSE IF Sum(pro, aflow, boPro) = 1 THEN "one_producer"
        ELSE IF Sum(pro, aflow, boPro) = 2 /\ Sum(pro, aflow, boProMark) = 1
             THEN "producer_and_market"
        ELSE IF Sum(pro, aflow, boMarkGeo) = 1 THEN "market_geo"
        ELSE IF Sum(pro, aflow, boProGeo) = 1 THEN "producer_geo"
        ELSE "ambiguous"
    ELSE IF aflow.activityType = "1" THEN "market_consumer"
    ELSE "other_consumer"

\* a resolver that guesses among the producers in the ambiguous branch
ActIdArray_guessing(rule, aflow, pro) ==
    CASE rule = "one_producer" -> ActivityIdValues(pro, aflow, boPro)
      [] rule = "producer_and_market" -> ActivityIdValues(pro, aflow, boProMark)
      [] rule = "market_geo" -> ActivityIdValues(pro, aflow, boMarkGeo)
      [] rule = "producer_geo" -> ActivityIdValues(pro, aflow, boProGeo)
      [] rule = "ambiguous" -> ActivityIdValues(pro, aflow, boPro)
      [] OTHER -> <<>>

\* the array act_id is set to in that branch (empty: act_id stays '')
ActIdArray(rule, aflow, pro) ==
    CASE rule = "one_producer" -> ActivityIdValues(pro, aflow, boPro)
      [] rule = "producer_and_market" -> ActivityIdValues(pro, aflow, boProMark)
      [] rule = "market_geo" -> ActivityIdValues(pro, aflow, boMarkGeo)
      [] rule = "producer_geo" -> ActivityIdValues(pro, aflow, boProGeo)
      [] OTHER -> <<>>

\* branches that call self.log.warn(...)
WarnRules == {"one_producer", "market_geo", "producer_geo"}
\* branches that end in the assignment to inflows.sourceActivityId
OrdinaryRules == {"no_producer", "one_producer", "producer_and_market",
                  "market_geo", "producer_geo", "ambiguous"}

\* the potentialSources file of the ambiguous branch: PRO.ix[boPro, :]
PotentialSources(aflow, pro) ==
    [productId |-> aflow.productId,
     fileId |-> aflow.fileId,
     rows |-> SelectRows(pro, LAMBDA k : boPro(aflow, pro[k]), 1)]

\* ------------------------------------------------ the missing-activity repairer
set_flows(infl) == { <<infl[k].sourceActivityId, infl[k].productId>> : k \in 1..Len(infl) }
set_labels(pro) == { <<pro[k].activityId, pro[k].productId>> : k \in 1..Len(pro) }
MissingActivities(infl, pro) == set_flows(infl) \ set_labels(pro)

\* the placeholder label is written without its activity
WithDummyLabels_unlabelled(pro, miss) ==
    pro \o [k \in 1..Len(miss) |->
              [index |-> fileIdOf(miss[k][1], miss[k][2]), activityId |-> NaNstr,
               productId |-> miss[k][2], geography |-> NaNstr,
               activityType |-> NaNstr, comment |-> "DUMMY PRODUCTION"]]

\* self.PRO.ix[i, copied_cols] = ...; self.PRO.ix[i, 'comment'] = 'DUMMY PRODUCTION'
RECURSIVE WithDummyLabels(_, _)
WithDummyLabels(pro, miss) ==
    IF Len(miss) = 0 THEN pro
    ELSE LET m == Head(miss)
             ix == fileIdOf(m[1], m[2])
             next ==
                IF InLabels(pro, ix)
                THEN [k \in 1..Len(pro) |->
                        IF pro[k].index = ix
                        THEN [pro[k] EXCEPT !.activityId = m[1], !.productId = m[2],
                                            !.comment = "DUMMY PRODUCTION"]
                        ELSE pro[k]]
                ELSE Append(pro, [index |-> ix, activityId |-> m[1], productId |-> m[2],
                                  geography |-> NaNstr, activityType |-> NaNstr,
                                  comment |-> "DUMMY PRODUCTION"])
         IN  WithDummyLabels(next, Tail(miss))

\* self.outflows.ix[i, ['fileId', 'productId', 'amount']] = [i, productId, 1.0]
RECURSIVE WithDummyOutflows(_, _)
WithDummyOutflows(outfl, miss) ==
    IF Len(miss) = 0 THEN outfl
    ELSE LET m == Head(miss)
             ix == fileIdOf(m[1], m[2])
             next ==
                IF \E k \in 1..Len(outfl) : outfl[k].index = ix
                THEN [k \in 1..Len(outfl) |->
                        IF outfl[k].index = ix
                        THEN [outfl[k] EXCEPT !.fileId = ix, !.productId = m[2], !.amount = 1]
                        ELSE outfl[k]]
                ELSE Append(outfl, [index |-> ix, fileId |-> ix, productId |-> m[2],
                                    amount |-> 1, productionVolume |-> NaN])
         IN  WithDummyOutflows(next, Tail(miss))


\* --------------------------------------------------------- matrix assembly
IndexOf(t) == { t[k].index : k \in 1..Len(t) }

\* the row label of an input flow: sourceActivityId + '_' + productId
SupplierKey(flow) == fileIdOf(flow.sourceActivityId, flow.productId)

\* pd.pivot refuses two entries for one (row, column) pair
PivotHasDuplicates(infl) ==
    \E j, k \in 1..Len(infl) :
        /\ j < k
        /\ SupplierKey(infl[j]) = SupplierKey(infl[k])
        /\ infl[j].fileId = infl[k].fileId

\* a cell of z = pd.pivot(...), NaN where no flow is recorded
zCell(infl, r, c) ==
    LET K == { k \in 1..Len(infl) : SupplierKey(infl[k]) = r /\ infl[k].fileId = c }
    IN  IF K = {} THEN NaN ELSE Num(infl[CHOOSE k \in K : TRUE].amount)

RECURSIVE SumAmounts(_, _)
SumAmounts(t, K) ==
    IF K = {} THEN 0
    ELSE LET k == CHOOSE x \in K : TRUE IN t[k].amount + SumAmounts(t, K \ {k})

\* a cell of g = pd.pivot_table(...): the mean of the recorded amounts
gCell(elfl, e, c) ==
    LET K == { k \in 1..Len(elfl) : elfl[k].elementaryExchangeId = e /\ elfl[k].fileId = c }
    IN  IF K = {} THEN NaN ELSE Rat(SumAmounts(elfl, K), Cardinality(K))

\* a Series taken from outflows cannot be aligned when its index repeats
HasDuplicateIndex(outfl) ==
    \E j, k \in 1..Len(outfl) : j < k /\ outfl[j].index = outfl[k].index

OutflowOf(outfl, f) == outfl[CHOOSE k \in 1..Len(outfl) : outfl[k].index = f]
HasOutflow(outfl, f) == \E k \in 1..Len(outfl) : outfl[k].index = f

\* a sign changer applied twice
sign_changer_twice(outfl, r) ==
    IF HasOutflow(outfl, r)
    THEN Mul(Rat(OutflowOf(outfl, r).amount, Abs(OutflowOf(outfl, r).amount)),
             Rat(OutflowOf(outfl, r).amount, Abs(OutflowOf(outfl, r).amount)))
    ELSE NaN

\* self.outflows['amount'] / self.outflows['amount'].abs()
sign_changer(outfl, r) ==
    IF HasOutflow(outfl, r)
    THEN Rat(OutflowOf(outfl, r).amount, Abs(OutflowOf(outfl, r).amount))
    ELSE NaN

\* a normalizer that always divides by the absolute value
col_normalizer_absolute(outfl, c, positive) ==
    IF HasOutflow(outfl, c)
    THEN Rat(1, Abs(OutflowOf(outfl, c).amount))
    ELSE NaN

\* 1 / self.outflows['amount'].abs()  or  1 / self.outflows['amount']
col_normalizer(outfl, c, positive) ==
    IF HasOutflow(outfl, c)
    THEN IF positive THEN Rat(1, Abs(OutflowOf(outfl, c).amount))
         ELSE Rat(1, OutflowOf(outfl, c).amount)
    ELSE NaN

\* a cell of A
ACell(infl, outfl, r, c, positive, tonull) ==
    LET z0 == zCell(infl, r, c)
        z1 == IF positive THEN Mul(z0, sign_changer(outfl, r)) ELSE z0
        a == Mul(z1, col_normalizer(outfl, c, positive))
    IN  IF tonull THEN FillNa0(a) ELSE a

\* a cell of F
FCell(elfl, outfl, e, c, positive, tonull) ==
    LET f == Mul(gCell(elfl, e, c), col_normalizer(outfl, c, positive))
    IN  IF tonull THEN FillNa0(f) ELSE f

\* q = self.outflows['productionVolume']
productionVolumeOf(outfl, c) ==
    IF HasOutflow(outfl, c) THEN OutflowOf(outfl, c).productionVolume ELSE NaN

\* a scaling by the production volume of the first process, whatever the column
ScaledCell_firstVolume(M, outfl, r, c) ==
    Mul(M[r, c], IF Len(outfl) = 0 THEN NaN ELSE outfl[1].productionVolume)

\* a cell of A.multiply(q, axis=1) or F.multiply(q, axis=1)
ScaledCell(M, outfl, r, c) == Mul(M[r, c], productionVolumeOf(outfl, c))

\* ------------------------------------------------- supply and use tables
\* remove_productId_from_fileId: the activity part of a file id
activityIdOfFile(f) == f[1]

\* the supplier of a use entry, as build_sut groups it
SutSource_keepNull(flow) == flow.sourceActivityId

\* infls.replace(to_replace=[None], value=''): the supplier of a use entry
SutSource(flow) ==
    IF flow.sourceActivityId = None THEN Blank ELSE flow.sourceActivityId

\* pivot_table leaves out the rows whose grouping key is null
UseEntries(infls) == { k \in 1..Len(infls) : SutSource(infls[k]) # None }

\* the (sourceActivityId, productId) rows of the traceable use table
UseRows(infls) == { <<SutSource(infls[k]), infls[k].productId>> : k \in UseEntries(infls) }

\* aggfunc=np.sum over the entries K of table t, NaN when there is none
SumCell(t, K) == IF K = {} THEN NaN ELSE Num(SumAmounts(t, K))

\* a cell of the traceable U
UseCell(infls, sp, a) ==
    SumCell(infls, { k \in UseEntries(infls) :
                        /\ SutSource(infls[k]) = sp[1]
                        /\ infls[k].productId = sp[2]
                        /\ activityIdOfFile(infls[k].fileId) = a })

RECURSIVE SumSkipNa(_, _)
\* sum of the cells f[x], x in X, that are not NaN; none: NaN
SumSkipNa(f, X) ==
    IF X = {} THEN NaN
    ELSE LET x == CHOOSE y \in X : TRUE
             rest == SumSkipNa(f, X \ {x})
         IN  IF f[x].nan THEN rest
             ELSE IF rest.nan THEN f[x]
             ELSE Rat(f[x].n * rest.d + rest.n * f[x].d, f[x].d * rest.d)

\* a cell of U.groupby(level='productId').sum(), reindexed on all products
UntraceableCell(infls, p, a) ==
    LET rows == { sp \in UseRows(infls) : sp[2] = p }
    IN  SumSkipNa([sp \in rows |-> UseCell(infls, sp, a)], rows)

\* a cell of V
SupplyCell(outfl, p, a) ==
    SumCell(outfl, { k \in 1..Len(outfl) :
                        /\ outfl[k].productId = p
                        /\ activityIdOfFile(outfl[k].fileId) = a })

\* a cell of V_prodVol
ProdVolCell(outfl, p, a) ==
    LET K == { k \in 1..Len(outfl) : /\ outfl[k].productId = p
                                     /\ activityIdOfFile(outfl[k].fileId) = a }
    IN  SumSkipNa([k \in K |-> outfl[k].productionVolume], K)

\* a cell of G_act
ExtensionCell(elfl, e, a) ==
    SumCell(elfl, { k \in 1..Len(elfl) :
                       /\ elfl[k].elementaryExchangeId = e
                       /\ activityIdOfFile(elfl[k].fileId) = a })

\* --------------------------------------------------------- _updatenull_log
\* NULL in a column of integer ids (the ids of rows start at 1)
NullId == 0

Least(S) == CHOOSE x \in S : \A y \in S : x <= y

\* select count(*) from foo where anId is null
NullCount(t) == Cardinality({ k \in 1..Len(t) : t[k].anId = NullId })

\* (select distinct fou.anId from fou where foo.aName = fou.aName): the value of
\* the first row found, NULL when there is none
LookupAnId(lookup, aName) ==
    LET K == { k \in 1..Len(lookup) : lookup[k].aName = aName }
    IN  IF K = {} THEN NullId ELSE lookup[Least(K)].anId

\* an update that fills no more than the first null row that has a match
FillNulls_firstOnly(t, lookup) ==
    LET K == { k \in 1..Len(t) : /\ t[k].anId = NullId
                                 /\ LookupAnId(lookup, t[k].aName) # NullId }
    IN  [k \in 1..Len(t) |->
            IF K # {} /\ k = Least(K)
            THEN [t[k] EXCEPT !.anId = LookupAnId(lookup, t[k].aName)]
            ELSE t[k]]

\* update foo set anId = (select ... from fou ...) where foo.anId is NULL
FillNulls(t, lookup) ==
    [k \in 1..Len(t) |->
        IF t[k].anId = NullId
        THEN [t[k] EXCEPT !.anId = LookupAnId(lookup, t[k].aName)]
        ELSE t[k]]

\* a column declared unique holds a value twice (NULLs never collide)
UniqueViolated(t) ==
    \E j, k \in 1..Len(t) :
        /\ j < k
        /\ \/ t[j].anId # NullId /\ t[j].anId = t[k].anId
           \/ t[j].aName = t[k].aName

\* ------------------------------------------------- the substance resolver
\* the rows of a query result, without repetition, in the order of first mention
RECURSIVE Distinct(_)
Distinct(s) ==
    IF s = <<>> THEN <<>>
    ELSE LET rest == Distinct(SelectRows(s, LAMBDA k : k > 1 /\ s[k] # s[1], 1))
         IN  <<s[1]>> \o rest

\* lower case of the names the records carry
Fold(s) ==
    CASE s = "CO2" -> "co2"
      [] s = "Copper" -> "copper"
      [] s = "Copper, ion" -> "copper, ion"
      [] s = "Chromium" -> "chromium"
      [] s = "Chromium VI" -> "chromium vi"
      [] s = "Zinc" -> "zinc"
      [] OTHER -> s

\* x like y, between names: equal whatever the case, never true of NULL
Like(x, y) == x # None /\ y # None /\ Fold(x) = Fold(y)

\* x = y of SQL: never true of NULL
SqlEq(x, y) == x # None /\ y # None /\ x = y

\* the rule of the substances table: one substance for a (cas, tag) pair when
\* the cas is known, one for a (name, tag) pair when it is not
SubstConflict(a, b) ==
    IF a.cas # None /\ b.cas # None THEN a.cas = b.cas /\ a.tag = b.tag
    ELSE IF a.cas = None /\ b.cas = None THEN a.aName = b.aName /\ a.tag = b.tag
    ELSE FALSE

\* the rule of the names table: one row for a (name, tag) pair, no NULL name
NameConflict(a, b) == a.name = b.name /\ a.tag = b.tag

\* an insertion that ignores no row
RECURSIVE InsertSubstances_all(_, _)
InsertSubstances_all(subst, rows) ==
    IF rows = <<>> THEN subst
    ELSE InsertSubstances_all(Append(subst, Head(rows)), Tail(rows))

\* insert or ignore into substances(aName, cas, tag), row after row
RECURSIVE InsertSubstances(_, _)
InsertSubstances(subst, rows) ==
    IF rows = <<>> THEN subst
    ELSE LET r == Head(rows)
             kept == IF \E k \in 1..Len(subst) : SubstConflict(subst[k], r)
                     THEN subst ELSE Append(subst, r)
         IN  InsertSubstances(kept, Tail(rows))

\* INSERT OR IGNORE INTO names (name, tag, substid), row after row
RECURSIVE InsertNames(_, _)
InsertNames(nms, rows) ==
    IF rows = <<>> THEN nms
    ELSE LET r == Head(rows)
             kept == IF r.name = None \/ \E k \in 1..Len(nms) : NameConflict(nms[k], r)
                     THEN nms ELSE Append(nms, r)
         IN  InsertNames(kept, Tail(rows))

\* the rows selected for names: (name, tag, substId) and (name2, tag, substId)
\* of the rows that have a substance
NameRows(t) ==
    LET known == SelectRows(t, LAMBDA k : t[k].substid # NullId, 1)
    IN  Distinct([k \in 1..Len(known) |->
                    [name |-> known[k].name, tag |-> known[k].tag,
                     substid |-> known[k].substid]]
                 \o [k \in 1..Len(known) |->
                    [name |-> known[k].name2, tag |-> known[k].tag,
                     substid |-> known[k].substid]])

\* an insertion of the names that ignores no row
InsertNamesFromLabels_all(nms, t) == nms \o NameRows(t)

\* _insert_names_from_labels
InsertNamesFromLabels(nms, t) == InsertNames(nms, NameRows(t))

\* 2.2: a substance row for each (name, cas, tag) of the rows that have a cas
CasRows(t) ==
    LET named == SelectRows(t, LAMBDA k : t[k].cas # None /\ t[k].name # None, 1)
        unnamed == SelectRows(t, LAMBDA k : t[k].cas # None /\ t[k].name = None, 1)
    IN  Distinct([k \in 1..Len(named) |->
                    [aName |-> named[k].name, cas |-> named[k].cas, tag |-> named[k].tag]]
                 \o [k \in 1..Len(unnamed) |->
                    [aName |-> unnamed[k].name2, cas |-> unnamed[k].cas,
                     tag |-> unnamed[k].tag]])

\* (SELECT s.substid FROM substances s WHERE t.cas=s.cas AND t.tag IS s.tag)
SubstIdByCas(subst, row) ==
    LET K == { k \in 1..Len(subst) : SqlEq(row.cas, subst[k].cas) /\ row.tag = subst[k].tag }
    IN  IF K = {} THEN NullId ELSE Least(K)

\* 2.4: backfill labels with substid based on CAS-tag
BackfillByCas(t, subst) ==
    [k \in 1..Len(t) |->
        IF t[k].substid = NullId
        THEN [t[k] EXCEPT !.substid = SubstIdByCas(subst, t[k])]
        ELSE t[k]]

\* a name match that disregards the tag
SubstIdByName_anyTag(nms, row) ==
    LET K == { k \in 1..Len(nms) :
                  Like(row.name, nms[k].name) \/ Like(row.name2, nms[k].name) }
    IN  IF K = {} THEN NullId ELSE nms[Least(K)].substid

\* (SELECT n.substid FROM names n WHERE (t.name like n.name or t.name2 like
\* n.name) AND t.tag IS n.tag)
SubstIdByName(nms, row) ==
    LET K == { k \in 1..Len(nms) :
                  /\ Like(row.name, nms[k].name) \/ Like(row.name2, nms[k].name)
                  /\ row.tag = nms[k].tag }
    IN  IF K = {} THEN NullId ELSE nms[Least(K)].substid

\* self._synonyms: pairs of names with their approximation level
Synonyms ==
    <<[aName |-> "carbon dioxide", anotherName |-> "co2", approximationLevel |-> 1],
      [aName |-> "carbon dioxide", anotherName |-> "dry ice", approximationLevel |-> 2]>>

\* np.sort(self._synonyms.approximationLevel.unique())
SynonymLevels == <<1, 2>>

\* (SELECT DISTINCT n.substid FROM names n, synonyms s WHERE (t.name like s.c0 OR
\* t.name2 like s.c0) AND s.c1 like n.name AND t.tag IS n.tag AND
\* s.approximationLevel = ?), c0 and c1 being the two columns in the order given
SubstIdBySynonym(nms, row, level, forward) ==
    LET K == { k \in 1..Len(nms) :
                 /\ row.tag = nms[k].tag
                 /\ \E s \in 1..Len(Synonyms) :
                       LET c0 == IF forward THEN Synonyms[s].aName
                                 ELSE Synonyms[s].anotherName
                           c1 == IF forward THEN Synonyms[s].anotherName
                                 ELSE Synonyms[s].aName
                       IN  /\ Synonyms[s].approximationLevel = level
                           /\ Like(row.name, c0) \/ Like(row.name2, c0)
                           /\ Like(c1, nms[k].name) }
    IN  IF K = {} THEN NullId ELSE nms[Least(K)].substid

\* one UPDATE OR ignore of _update_labels_from_names by synonyms
UpdateBySynonym(t, nms, level, forward) ==
    [k \in 1..Len(t) |->
        IF t[k].substid = NullId /\ t[k].cas = None
        THEN [t[k] EXCEPT !.substid = SubstIdBySynonym(nms, t[k], level, forward)]
        ELSE t[k]]

\* the loop over the levels, each in both directions
RECURSIVE UpdateBySynonyms(_, _, _)
UpdateBySynonyms(t, nms, l) ==
    IF l > Len(SynonymLevels) THEN t
    ELSE UpdateBySynonyms(
             UpdateBySynonym(UpdateBySynonym(t, nms, SynonymLevels[l], TRUE),
                             nms, SynonymLevels[l], FALSE),
             nms, l + 1)

\* a matching that tries the synonyms before the names themselves
UpdateLabelsFromNames_synonymsFirst(t, nms) ==
    LET bySynonym == UpdateBySynonyms(t, nms, 1)
    IN  [k \in 1..Len(t) |->
            IF bySynonym[k].substid = NullId /\ t[k].cas = None
            THEN [t[k] EXCEPT !.substid = SubstIdByName(nms, t[k])]
            ELSE bySynonym[k]]

\* _update_labels_from_names
UpdateLabelsFromNames(t, nms) ==
    LET byName == [k \in 1..Len(t) |->
                      IF t[k].substid = NullId /\ t[k].cas = None
                      THEN [t[k] EXCEPT !.substid = SubstIdByName(nms, t[k])]
                      ELSE t[k]]
    IN  UpdateBySynonyms(byName, nms, 1)

\* 2.5: a substance row for each (name, cas, tag) of the rows without substance
MintRows(t) ==
    LET named == SelectRows(t, LAMBDA k : t[k].substid = NullId /\ t[k].name # None, 1)
        unnamed == SelectRows(t, LAMBDA k : t[k].substid = NullId /\ t[k].name = None, 1)
    IN  Distinct([k \in 1..Len(named) |->
                    [aName |-> named[k].name, cas |-> named[k].cas, tag |-> named[k].tag]]
                 \o [k \in 1..Len(unnamed) |->
                    [aName |-> unnamed[k].name2, cas |-> unnamed[k].cas,
                     tag |-> unnamed[k].tag]])

\* (SELECT s.substid FROM substances s WHERE (t.name like s.aName OR t.name2
\* like s.aName) AND t.tag IS s.tag)
SubstIdByAName(subst, row) ==
    LET K == { k \in 1..Len(subst) :
                  /\ Like(row.name, subst[k].aName) \/ Like(row.name2, subst[k].aName)
                  /\ row.tag = subst[k].tag }
    IN  IF K = {} THEN NullId ELSE Least(K)

\* 2.6: backfill labels with substid based on name-tag
BackfillByName(t, subst) ==
    [k \in 1..Len(t) |->
        IF t[k].substid = NullId
        THEN [t[k] EXCEPT !.substid = SubstIdByAName(subst, t[k])]
        ELSE t[k]]

\* the body of the loop of _integrate_flows_withCAS, for one table
WithCAS(t, subst, nms) ==
    LET subst1 == InsertSubstances(subst, CasRows(t))
        t1 == BackfillByCas(t, subst1)
    IN  [table |-> t1, substances |-> subst1, names |-> InsertNamesFromLabels(nms, t1)]

\* the body of the loop of _integrate_flows_withoutCAS, for one table
WithoutCAS(t, subst, nms) ==
    LET t1 == UpdateLabelsFromNames(t, nms)
        nms1 == InsertNamesFromLabels(nms, t1)
        subst1 == InsertSubstances(subst, MintRows(t1))
        t2 == BackfillByName(t1, subst1)
        nms2 == InsertNamesFromLabels(nms1, t2)
    IN  [table |-> UpdateLabelsFromNames(t2, nms2), substances |-> subst1, names |-> nms2]

\* the two resolution passes of characterize_flows over ('raw_char',
\* 'raw_inventory')
ResolutionPasses(char, inventory, subst, nms) ==
    LET c1 == WithCAS(char, subst, nms)
        i1 == WithCAS(inventory, c1.substances, c1.names)
        c2 == WithoutCAS(c1.table, i1.substances, i1.names)
        i2 == WithoutCAS(i1.table, c2.substances, c2.names)
    IN  [raw_char |-> c2.table, raw_inventory |-> i2.table,
         substances |-> i2.substances, names |-> i2.names]

\* ------------------------------------------------------ labels and factors
\* self.char_method
CharMethod == "ReCiPe"

\* the columns of a raw table that make a label
LabelOfRaw(r) ==
    [id |-> r.id, substid |-> r.substid, name |-> r.name, name2 |-> r.name2,
     tag |-> r.tag, comp |-> r.comp, subcomp |-> r.subcomp, cas |-> r.cas,
     unit |-> r.unit]

\* SELECT DISTINCT id, substId, name, name2, tag, comp, subcomp, cas, unit FROM t
LabelRows(t) == Distinct([k \in 1..Len(t) |-> LabelOfRaw(t[k])])

\* select distinct substId, comp, subcomp, unit, impactId, factorValue, method
\* from raw_char
FactorRows(t) ==
    Distinct([k \in 1..Len(t) |->
                [substid |-> t[k].substid, comp |-> t[k].comp, subcomp |-> t[k].subcomp,
                 unit |-> t[k].unit, impactId |-> t[k].impactId,
                 factorValue |-> t[k].factorValue, method |-> CharMethod]])

\* the loose constraint of the factors table: no row twice, whatever its value
FactorConflict(a, b) == a = b

\* insert or ignore into factors(...), row after row
RECURSIVE InsertFactors(_, _)
InsertFactors(fs, rows) ==
    IF rows = <<>> THEN fs
    ELSE LET r == Head(rows)
             kept == IF \E k \in 1..Len(fs) : FactorConflict(fs[k], r)
                     THEN fs ELSE Append(fs, r)
         IN  InsertFactors(kept, Tail(rows))

\* (SELECT DISTINCT substid FROM names WHERE name LIKE ?)
SubstIdOfName(nms, aName) ==
    LET K == { k \in 1..Len(nms) : Like(nms[k].name, aName) }
    IN  IF K = {} THEN NullId ELSE nms[Least(K)].substid

\* the WHERE clause of the update that customizes a factor
CustomTargets(f, nms, o) ==
    /\ f.impactId = o.impactID
    /\ f.substid # NullId
    /\ f.substid = SubstIdOfName(nms, o.aName)
    /\ f.comp = o.comp /\ f.subcomp = o.subcomp /\ f.unit = o.unit

\* an update that sets the value of every factor of the impact
RECURSIVE Customize_wholeImpact(_, _, _, _)
Customize_wholeImpact(fs, nms, o, k) ==
    IF k > Len(fs) THEN fs
    ELSE LET new == [fs[k] EXCEPT !.factorValue = o.factorValue]
             clash == \E j \in 1..Len(fs) : j # k /\ FactorConflict(fs[j], new)
         IN  IF fs[k].impactId = o.impactID /\ ~clash
             THEN Customize_wholeImpact([fs EXCEPT ![k] = new], nms, o, k + 1)
             ELSE Customize_wholeImpact(fs, nms, o, k + 1)

\* UPDATE OR IGNORE factors SET factorValue=? WHERE ..., from row k on
RECURSIVE Customize(_, _, _, _)
Customize(fs, nms, o, k) ==
    IF k > Len(fs) THEN fs
    ELSE LET new == [fs[k] EXCEPT !.factorValue = o.factorValue]
             clash == \E j \in 1..Len(fs) : j # k /\ FactorConflict(fs[j], new)
         IN  IF CustomTargets(fs[k], nms, o) /\ ~clash
             THEN Customize([fs EXCEPT ![k] = new], nms, o, k + 1)
             ELSE Customize(fs, nms, o, k + 1)

\* c.rowcount of that update: the rows it wrote, from row k on
RECURSIVE CustomRowCount(_, _, _, _)
CustomRowCount(fs, nms, o, k) ==
    IF k > Len(fs) THEN 0
    ELSE LET new == [fs[k] EXCEPT !.factorValue = o.factorValue]
             clash == \E j \in 1..Len(fs) : j # k /\ FactorConflict(fs[j], new)
         IN  IF CustomTargets(fs[k], nms, o) /\ ~clash
             THEN 1 + CustomRowCount([fs EXCEPT ![k] = new], nms, o, k + 1)
             ELSE CustomRowCount(fs, nms, o, k + 1)

\* the loop over self._custom_factors
RECURSIVE CustomizeAll(_, _, _, _)
CustomizeAll(fs, nms, custom, n) ==
    IF n > Len(custom) THEN fs
    ELSE CustomizeAll(Customize(fs, nms, custom[n], 1), nms, custom, n + 1)

\* the log records of that loop
RECURSIVE CustomLogOf(_, _, _, _)
CustomLogOf(fs, nms, custom, n) ==
    IF n > Len(custom) THEN <<>>
    ELSE (IF CustomRowCount(fs, nms, custom[n], 1) > 0 THEN <<custom[n]>> ELSE <<>>)
         \o CustomLogOf(Customize(fs, nms, custom[n], 1), nms, custom, n + 1)

\* the rows of the query that identifies conflicting characterisation factors
FactorConflicts(fs, subst) ==
    { [substid |-> fs[j].substid, comp |-> fs[j].comp, subcomp |-> fs[j].subcomp,
       unit |-> fs[j].unit, impactId |-> fs[j].impactId, method |-> fs[j].method,
       factorValue |-> fs[j].factorValue, otherValue |-> fs[k].factorValue] :
      <<j, k>> \in { p \in (1..Len(fs)) \X (1..Len(fs)) :
                       /\ fs[p[1]].substid \in 1..Len(subst)
                       /\ fs[p[1]].substid = fs[p[2]].substid
                       /\ fs[p[1]].comp = fs[p[2]].comp
                       /\ fs[p[1]].subcomp = fs[p[2]].subcomp
                       /\ fs[p[1]].unit = fs[p[2]].unit
                       /\ fs[p[1]].impactId = fs[p[2]].impactId
                       /\ fs[p[1]].method = fs[p[2]].method
                       /\ fs[p[1]].factorValue # fs[p[2]].factorValue } }

\* ------------------------------------------------ characterisation matching
\* self.obs2char_subcomp
ObsToCharSubcomps ==
    <<[comp |-> "soil", obs_sc |-> "agricultural", char_sc |-> "agricultural"],
      [comp |-> "soil", obs_sc |-> "forestry", char_sc |-> "forestry"],
      [comp |-> "air", obs_sc |-> "high population density",
       char_sc |-> "high population density"],
      [comp |-> "soil", obs_sc |-> "industrial", char_sc |-> "industrial"],
      [comp |-> "air", obs_sc |-> "low population density",
       char_sc |-> "low population density"],
      [comp |-> "water", obs_sc |-> "ocean", char_sc |-> "ocean"],
      [comp |-> "water", obs_sc |-> "river", char_sc |-> "river"],
      [comp |-> "water", obs_sc |-> "river, long-term", char_sc |-> "river"],
      [comp |-> "air", obs_sc |-> "lower stratosphere + upper troposphere",
       char_sc |-> "low population density"],
      [comp |-> "air", obs_sc |-> "low population density, long-term",
       char_sc |-> "low population density"]>>

\* self.fallback_sc
FallbackSc ==
    <<[comp |-> "water", fallbacksubcomp |-> "river"],
      [comp |-> "soil", fallbacksubcomp |-> "industrial"],
      [comp |-> "air", fallbacksubcomp |-> "low population density"]>>

\* insert into labels_out(...) select distinct ... from labels_inventory
InventoryLabelsOut(li) ==
    Distinct([k \in 1..Len(li) |->
                [dsid |-> li[k].id, substid |-> li[k].substid, comp |-> li[k].comp,
                 subcomp |-> li[k].subcomp, name |-> li[k].name, name2 |-> li[k].name2,
                 cas |-> li[k].cas, tag |-> li[k].tag, unit |-> li[k].unit]])

\* the labels of labels_char for which labels_out has no row of the same
\* substance, compartment, subcompartment and unit
CharLabelsOut(lc, lo) ==
    LET new == SelectRows(lc, LAMBDA k :
                   ~\E j \in 1..Len(lo) :
                        /\ lo[j].substid # NullId /\ lo[j].substid = lc[k].substid
                        /\ lo[j].comp = lc[k].comp
                        /\ lo[j].subcomp = lc[k].subcomp
                        /\ lo[j].unit = lc[k].unit, 1)
    IN  Distinct([k \in 1..Len(new) |->
                    [dsid |-> None, substid |-> new[k].substid, comp |-> new[k].comp,
                     subcomp |-> new[k].subcomp, name |-> new[k].name,
                     name2 |-> new[k].name2, cas |-> new[k].cas, tag |-> new[k].tag,
                     unit |-> new[k].unit]])

\* the join condition of a stage of the cascade, but for the subcompartment
SameFlow(l, f) ==
    /\ l.substid # NullId /\ l.substid = f.substid
    /\ l.comp = f.comp
    /\ f.method = CharMethod
    /\ l.unit = f.unit

\* the WHERE clause of the insert of a stage
StageMatch(l, f, stage) ==
    /\ SameFlow(l, f)
    /\ CASE stage = 1 -> l.subcomp = f.subcomp
         [] stage = 2 -> \E s \in 1..Len(ObsToCharSubcomps) :
                            /\ l.subcomp = ObsToCharSubcomps[s].obs_sc
                            /\ ObsToCharSubcomps[s].char_sc = f.subcomp
         [] stage = 3 -> f.subcomp = "unspecified" /\ Len(ObsToCharSubcomps) > 0
         [] OTHER -> \E s \in 1..Len(FallbackSc) :
                            /\ l.comp = FallbackSc[s].comp
                            /\ f.subcomp = FallbackSc[s].fallbacksubcomp

\* the rows a stage selects: one per label of labels_out and matching factor
StageRows(lo, fs, stage) ==
    LET n == Len(fs)
        flowOf(p) == ((p - 1) \div n) + 1
        factorOf(p) == ((p - 1) % n) + 1
        pairs == [p \in 1..(Len(lo) * n) |-> <<flowOf(p), factorOf(p)>>]
        sel == SelectRows(pairs, LAMBDA p : StageMatch(lo[pairs[p][1]], fs[pairs[p][2]],
                                                       stage), 1)
    IN  [k \in 1..Len(sel) |->
            [flowId |-> sel[k][1],
             dsid |-> IF stage = 4 THEN lo[sel[k][1]].dsid ELSE None,
             impactId |-> fs[sel[k][2]].impactId,
             factorId |-> sel[k][2],
             factorValue |-> fs[sel[k][2]].factorValue,
             scheme |-> fs[sel[k][2]].method]]

\* the rule of the obs2char table: one link for a flow and an impact
LinkConflict(a, b) == a.flowId = b.flowId /\ a.impactId = b.impactId

\* INSERT INTO obs2char cannot be done: two of the rows break the rule
LinksClash(rows) ==
    \E j, k \in 1..Len(rows) : j < k /\ LinkConflict(rows[j], rows[k])

\* a plain INSERT of every row
InsertLinks_all(obs, rows) == obs \o rows

\* INSERT or ignore INTO obs2char(...), row after row
RECURSIVE InsertLinks(_, _)
InsertLinks(obs, rows) ==
    IF rows = <<>> THEN obs
    ELSE LET r == Head(rows)
             kept == IF \E k \in 1..Len(obs) : LinkConflict(obs[k], r)
                     THEN obs ELSE Append(obs, r)
         IN  InsertLinks(kept, Tail(rows))

\* the four inserts of the cascade, in their order: the first is a plain INSERT
Cascade(obs, lo, fs) ==
    InsertLinks(InsertLinks(InsertLinks(obs \o StageRows(lo, fs, 1),
                                        StageRows(lo, fs, 2)),
                            StageRows(lo, fs, 3)),
                StageRows(lo, fs, 4))

\* binary order of the names, NULL first: ORDER BY name
NameOrder ==
    <<None, "CO2", "Chromium", "Chromium VI", "Copper", "Copper, ion", "Zinc",
      "carbon dioxide", "co2", "copper", "dry ice">>

\* rows ordered by name, rows of one name in the order of the table
RECURSIVE OrderByName(_)
OrderByName(rows) ==
    IF rows = <<>> THEN <<>>
    ELSE LET k == Least({ j \in 1..Len(rows) :
                            \A l \in 1..Len(rows) :
                                PosIn(NameOrder, rows[j].name) <= PosIn(NameOrder, rows[l].name) })
         IN  <<rows[k]>> \o OrderByName(SelectRows(rows, LAMBDA j : j # k, 1))

\* labels_out with its id column
WithId(lo) ==
    [k \in 1..Len(lo) |->
        [id |-> k, dsid |-> lo[k].dsid, substid |-> lo[k].substid, comp |-> lo[k].comp,
         subcomp |-> lo[k].subcomp, name |-> lo[k].name, name2 |-> lo[k].name2,
         cas |-> lo[k].cas, tag |-> lo[k].tag, unit |-> lo[k].unit]]

\* an audit that lists the uncharacterized flows of known substance only
UncharacterizedFlows_resolvedOnly(lo, obs) ==
    LET rows == WithId(lo)
    IN  OrderByName(SelectRows(rows, LAMBDA k :
            /\ rows[k].substid # NullId
            /\ \A j \in 1..Len(obs) : obs[j].flowId # k, 1))

\* SELECT DISTINCT * FROM labels_out lo WHERE lo.id NOT IN (SELECT DISTINCT
\* flowId FROM obs2char) order by name
UncharacterizedFlows(lo, obs) ==
    LET rows == WithId(lo)
    IN  OrderByName(SelectRows(rows, LAMBDA k :
            \A j \in 1..Len(obs) : obs[j].flowId # k, 1))

\* the substances none of whose flows has a link
UncharacterizedSubst(subst, lo, obs) ==
    { s \in 1..Len(subst) :
        ~\E k \in 1..Len(lo) :
            /\ lo[k].substid = s
            /\ \E j \in 1..Len(obs) : obs[j].flowId = k }

\* ------------------------------------------------ characterized extensions
\* table impacts, in the order of its rows
Impacts ==
    <<[impactId |-> "GWP100", perspective |-> "H", unit |-> "kg CO2-Eq"],
      [impactId |-> "FETP", perspective |-> "H", unit |-> "kg 1,4-DB-Eq"]>>

\* binary order of the texts of the impacts table
TextOrder == <<"FETP", "GWP100", "H", "kg 1,4-DB-Eq", "kg CO2-Eq">>

\* order by perspective, unit, impactId
ImpactBefore(a, b) ==
    LET ra == <<PosIn(TextOrder, a.perspective), PosIn(TextOrder, a.unit),
                PosIn(TextOrder, a.impactId)>>
        rb == <<PosIn(TextOrder, b.perspective), PosIn(TextOrder, b.unit),
                PosIn(TextOrder, b.impactId)>>
    IN  \/ ra[1] < rb[1]
        \/ ra[1] = rb[1] /\ ra[2] < rb[2]
        \/ ra[1] = rb[1] /\ ra[2] = rb[2] /\ ra[3] <= rb[3]

\* the impactId column of "select * from impacts order by perspective, unit,
\* impactId"
RECURSIVE OrderedImpacts(_)
OrderedImpacts(rows) ==
    IF rows = <<>> THEN <<>>
    ELSE LET k == Least({ j \in 1..Len(rows) :
                            \A l \in 1..Len(rows) : ImpactBefore(rows[j], rows[l]) })
         IN  <<rows[k].impactId>> \o OrderedImpacts(SelectRows(rows, LAMBDA j : j # k, 1))

\* the values of a set of numbers or texts in increasing order
RECURSIVE Ascending(_, _)
Ascending(S, Rank) ==
    IF S = {} THEN <<>>
    ELSE LET m == CHOOSE x \in S : \A y \in S : Rank[x] <= Rank[y]
         IN  <<m>> \o Ascending(S \ {m}, Rank)

\* row labels of the pivot table: the impacts that have a link, sorted
PivotIndex(obs) ==
    Ascending({ obs[k].impactId : k \in 1..Len(obs) },
              [x \in Range(TextOrder) |-> PosIn(TextOrder, x)])

\* column labels of the pivot table: the flows that have a link, sorted
PivotColumns(obs) ==
    LET flows == { obs[k].flowId : k \in 1..Len(obs) }
    IN  Ascending(flows, [x \in flows |-> x])

RECURSIVE SumValues(_, _)
SumValues(obs, K) ==
    IF K = {} THEN 0
    ELSE LET k == CHOOSE x \in K : TRUE
         IN  obs[k].factorValue + SumValues(obs, K \ {k})

\* a cell of pd.pivot_table(obs2char, values='factorValue', columns='flowId',
\* index='impactId'): the mean of the values of the links of the pair
PivotCell(obs, imp, flow) ==
    LET K == { k \in 1..Len(obs) : obs[k].impactId = imp /\ obs[k].flowId = flow }
    IN  IF K = {} THEN NaN ELSE Rat(SumValues(obs, K), Cardinality(K))

\* an axis left as the pivot table has it
ReindexAxis_keep(labels, target) == labels

\* the labels of an axis after reindex_axis(target)
ReindexAxis(labels, target) == target

\* C: the pivot table, its columns reindexed to the stressors and its rows to the
\* impacts, fillna(0)
CharacterisationMatrix(obs, impIndex, strIndex) ==
    LET rows == ReindexAxis(PivotIndex(obs), impIndex)
        cols == ReindexAxis(PivotColumns(obs), strIndex)
    IN  [index |-> rows,
         columns |-> cols,
         cell |-> [m \in Range(rows), j \in Range(cols) |->
                     FillNa0(PivotCell(obs, m, j))]]

\* row and column labels of a matrix held as a function of (row, column)
RowsOf(M) == { k[1] : k \in DOMAIN M }
ColumnsOf(M) == { k[2] : k \in DOMAIN M }

\* self.F.reindex_axis(self.STR.ix[:, 'dsid'].values, 0).fillna(0), the index
\* then replaced by the index of STR
ReorganizedF(M, lo) ==
    [e \in 1..Len(lo), c \in ColumnsOf(M) |->
        IF lo[e].dsid \in RowsOf(M) THEN FillNa0(M[lo[e].dsid, c]) ELSE Num(0)]

\* M.values.sum(), of a matrix of whole numbers
RECURSIVE SumOfCells(_, _)
SumOfCells(M, K) ==
    IF K = {} THEN 0
    ELSE LET k == CHOOSE x \in K : TRUE
         IN  FillNa0(M[k]).n + SumOfCells(M, K \ {k})

\* (M.values > 0).sum()
PositiveCells(M) == Cardinality({ k \in DOMAIN M : ~M[k].nan /\ M[k].n > 0 })

\* the two safety assertions of generate_characterized_extensions
SafetyAssertions(Fnew, Forg) ==
    /\ SumOfCells(Fnew, DOMAIN Fnew) = SumOfCells(Forg, DOMAIN Forg)
    /\ PositiveCells(Fnew) = PositiveCells(Forg)

\* ------------------------------------------------- make_compatible_with_arda
\* step of complement_ardaid
ArdaStep == 10

MaxOf(S) == CHOOSE x \in S : \A y \in S : y <= x

\* ardaid of an impact after the merge with IMP_old on the accronym: 0 when
\* there is none
MergedArdaId(old, impactId) ==
    LET K == { k \in 1..Len(old) : old[k].accronym = impactId }
    IN  IF K = {} THEN 0 ELSE old[Least(K)].ardaid

\* complement_ardaid: the rows without a positive ardaid get the ids that follow
\* the largest old one plus the step, in the order of the rows
ComplementArdaId(imp, old) ==
    LET start == MaxOf({ old[k].ardaid : k \in 1..Len(old) }) + ArdaStep
        missing(k) == Cardinality({ j \in 1..k : MergedArdaId(old, imp[j]) <= 0 })
    IN  [k \in 1..Len(imp) |->
            [impactId |-> imp[k],
             ardaid |-> IF MergedArdaId(old, imp[k]) > 0 THEN MergedArdaId(old, imp[k])
                        ELSE start + missing(k)]]

\* self.IMP.sort('ardaid'): the index of IMP in the order of the ardaids
RECURSIVE SortByArdaId(_)
SortByArdaId(rows) ==
    IF rows = <<>> THEN <<>>
    ELSE LET k == Least({ j \in 1..Len(rows) :
                            \A l \in 1..Len(rows) : rows[j].ardaid <= rows[l].ardaid })
         IN  <<rows[k].impactId>> \o SortByArdaId(SelectRows(rows, LAMBDA j : j # k, 1))

\* a reindex of C that keeps the rows where they are
ReindexRows_keep(M, target) == M

\* self.C.reindex(index=self.IMP.index)
ReindexRows(M, target) ==
    [index |-> target,
     columns |-> M.columns,
     cell |-> [m \in Range(target), j \in Range(M.columns) |->
                 IF m \in Range(M.index) THEN M.cell[m, j] ELSE NaN]]

\* ------------------------------------------------- reading the characterisation
\* trim(lower(x)) of a compartment or subcompartment as read
LowerTrim(s) ==
    CASE s = "Water" -> "water"
      [] s = " water" -> "water"
      [] s = "Air" -> "air"
      [] OTHER -> s

\* a row of parameters/cas_conflicts.csv: the cas of ionic copper
CasConflicts ==
    <<[aName |-> "Copper, ion", bad_cas |-> "7440-50-8", cas |-> "17493-86-6"]>>

\* the id the table gives its n-th row
NewCharId(n) == <<"c1", "c2", "c3", "c4", "c5", "c6", "c7", "c8">>[n]

\* add Chromium VI back: the rows of cas 7440-47-3 once more, with a new id
AddChromiumVI(t) ==
    LET cr == SelectRows(t, LAMBDA k : SqlEq(t[k].cas, "7440-47-3"), 1)
    IN  t \o [k \in 1..Len(cr) |->
                [cr[k] EXCEPT !.id = NewCharId(Len(t) + k), !.name = "Chromium VI",
                              !.name2 = "Chromium VI", !.cas = "18540-29-9"]]

\* update raw_char set name='Copper, ion', name2='Copper, ion'
\* where comp='water' and name like 'copper'
ForceCopper(r) ==
    IF SqlEq(r.comp, "water") /\ Like(r.name, "copper")
    THEN [r EXCEPT !.name = "Copper, ion", !.name2 = "Copper, ion"]
    ELSE r

\* the cas of a row once the rows of cas_conflicts.csv are applied
RECURSIVE SubstitutedCas(_, _)
SubstitutedCas(r, n) ==
    IF n > Len(CasConflicts) THEN r.cas
    ELSE LET row == CasConflicts[n]
             cas == IF /\ Like(r.name, row.aName) \/ Like(r.name2, row.aName)
                       /\ SqlEq(r.cas, row.bad_cas)
                    THEN row.cas ELSE r.cas
         IN  SubstitutedCas([r EXCEPT !.cas = cas], n + 1)

\* clean_label on a row whose unit and names carry no blank and no tag suffix
CleanLabelRow(r) ==
    LET comp == LowerTrim(r.comp)
        subcomp == IF r.subcomp = None THEN None ELSE LowerTrim(r.subcomp)
        cleaned == [r EXCEPT
                       !.comp = IF comp \in {"raw", "natural resource"}
                                THEN "resource" ELSE comp,
                       !.subcomp = CASE subcomp \in {None, "(unspecified)", ""}
                                          -> "unspecified"
                                     [] subcomp = "low. pop." -> "low population density"
                                     [] subcomp = "high. pop." -> "high population density"
                                     [] OTHER -> subcomp,
                       !.name = IF r.name = "" THEN None ELSE r.name,
                       !.name2 = IF r.name2 = "" THEN None ELSE r.name2,
                       !.cas = IF r.cas = "" THEN None ELSE r.cas]
    IN  [cleaned EXCEPT !.cas = SubstitutedCas(cleaned, 1)]

\* the compartment-specific fixes for chromium that follow clean_label
FixChromium(r) ==
    IF /\ SqlEq(r.cas, "7440-47-3") /\ SqlEq(r.comp, "water")
       /\ Like(r.name, "chromium iii") \/ Like(r.name2, "chromium iii")
    THEN [r EXCEPT !.cas = "16065-83-1", !.name = "Chromium III", !.name2 = "Chromium III"]
    ELSE IF /\ SqlEq(r.cas, "7440-46-3") /\ r.comp # "water"
            /\ Like(r.name, "chromium") \/ Like(r.name2, "chromium")
    THEN [r EXCEPT !.name = "Chromium", !.name2 = "Chromium"]
    ELSE r

\* add separate neutral Ni in groundwater
AddNickel(t) ==
    LET ni == SelectRows(t, LAMBDA k : SqlEq(t[k].cas, "14701-22-5")
                                       /\ SqlEq(t[k].subcomp, "river"), 1)
    IN  t \o [k \in 1..Len(ni) |->
                [ni[k] EXCEPT !.id = NewCharId(Len(t) + k), !.name = "Nickel",
                              !.name2 = "Nickel", !.cas = "7440-02-0"]]

\* raw_char at the end of read_characterisation, from the rows as inserted
CharacterisationRead(t) ==
    LET added == AddChromiumVI(t)
        forced == [k \in 1..Len(added) |-> ForceCopper(added[k])]
        cleaned == [k \in 1..Len(forced) |-> FixChromium(CleanLabelRow(forced[k]))]
    IN  AddNickel(cleaned)

\* ------------------------------------------------------ quality check
\* a tolerance is m * 10^e, m a one-digit mantissa (0 and negative included)
\* rtolmin = 1e-16
rtolmin == [m |-> 1, e |-> 0 - 16]

\* x > y, for y positive
Above(x, y) == x.m > 0 /\ (x.e > y.e \/ (x.e = y.e /\ x.m > y.m))

\* rtol unchanged
Div10_kept(x) == x

\* rtol /= 10
Div10(x) == [x EXCEPT !.e = @ - 1]

\* rtol > self.rtolmin: the quotients are rounded, so a tolerance that equals
\* rtolmin in exact arithmetic compares either way
AboveRtolmin(x) == IF x = rtolmin THEN BOOLEAN ELSE {Above(x, rtolmin)}


\* ------------------------------------------------------------------ saving
\* fileformats arguments tried (given = FALSE: fileformats is None)
FormatChoices ==
    { [given |-> FALSE, formats |-> {}],
      [given |-> TRUE, formats |-> {"Pandas"}],
      [given |-> TRUE, formats |-> {"csv", "SparseMatrixForArda"}] }

\* formats written when save_system runs to its end
FormatsWritten(ff) ==
    { f \in {"Pandas", "SparsePandas", "csv"} : ~ff.given \/ f \in ff.formats }
    \cup { f \in {"SparseMatrix"} :
            ~ff.given \/ f \in ff.formats \/ "SparseMatrixForArda" \in ff.formats }

\* formats written before the test "'SparseMatrixForArda' in file_formats"
FormatsBeforeArdaTest(ff) ==
    { f \in {"Pandas", "SparsePandas"} : ~ff.given \/ f \in ff.formats }


\* ----------------------------------------------------------------- actions
NoMatrix == <<>>
NoFormats == [given |-> FALSE, formats |-> {"not called"}]

\* no supply and use table is built
SutUnbuilt ==
    /\ U = NoMatrix /\ V = NoMatrix /\ V_prodVol = NoMatrix /\ G_act = NoMatrix
    /\ make_untraceable = FALSE
    /\ sutCalls = 0

\* cummulative_lci_check is not called
ToleranceUnchecked ==
    /\ rtol = [m |-> 1, e |-> -2]
    /\ imax = 3
    /\ shelf = {}

\* pickles are neither preferred nor saved, and the system directory holds none
CacheUnused ==
    /\ prefer_pickles = FALSE /\ save_interm = FALSE
    /\ flowsPickle = <<>> /\ labelsPickle = <<>>
    /\ loaded = {}

\* no table of the characterisation database is filled
CharUnused ==
    /\ foo = <<>> /\ fou = <<>> /\ changes = <<>>
    /\ raw_inventory = <<>> /\ raw_char = <<>>
    /\ substances = <<>> /\ names = <<>> /\ factors = <<>>
    /\ labels_inventory = <<>> /\ labels_char = <<>> /\ labels_out = <<>>
    /\ obs2char = <<>> /\ unchar_flow = <<>> /\ unchar_subst = {}
    /\ custom_factors = <<>> /\ customLog = <<>> /\ factor_conflicts = {}
    /\ C = NoMatrix /\ IMP = <<>> /\ IMP_old = <<>>
NoUnsourced == [isNone |-> TRUE, merged |-> FALSE, rows |-> <<>>]
StressorIds == <<"CH4", "CO2">>

\* an exception leaves ecospold_to_Leontief
Raise(site) == pc' = "raised" /\ err' = site

SourceColumn(infl) == [k \in 1..Len(infl) |-> infl[k].sourceActivityId]

\* the object after __init__, in a process whose logger is untouched
Constructed ==
    /\ inflows = <<>>
    /\ outflows = <<>>
    /\ elementary_flows = <<>>
    /\ PRO = <<>>
    /\ STR = <<>>
    /\ unsourced_flows = NoUnsourced
    /\ i = 1
    /\ logWarnCallable = TRUE
    /\ auditFiles = {}
    /\ missing_activities = {}
    /\ A = NoMatrix /\ F = NoMatrix /\ Z = NoMatrix /\ G_pro = NoMatrix
    /\ built = {}
    /\ saved = {}
    /\ file_formats = NoFormats
    /\ SutUnbuilt
    /\ CharUnused
    /\ pc = "get_flows"
    /\ err = "none"
    /\ run = 1
    /\ handled = <<>>
    /\ resolved = <<>>

\* get_flows: the pickled flows if preferred and present, else extract_flows
\* and, if intermediate results are saved, a new flows.pickle
GetFlows ==
    /\ pc = "get_flows"
    /\ IF prefer_pickles /\ flowsPickle # <<>>
       THEN /\ inflows' = flowsPickle[1]
            /\ elementary_flows' = flowsPickle[2]
            /\ outflows' = flowsPickle[3]
            /\ loaded' = loaded \cup {"flows"}
            /\ pc' = "get_labels"
            /\ UNCHANGED <<flowsPickle, err>>
       ELSE LET inflow_list == NonZero(datasetInflows)
                raw_out == NonZero(datasetOutflows)
                outflow_list == deduplicated(raw_out)
                warns == Len(outflow_list) < Len(raw_out) \/ id_duplicates(outflow_list) # {}
            IN  IF warns /\ ~logWarnCallable
                THEN /\ Raise("extract_flows")
                     /\ UNCHANGED <<flowVars, flowsPickle, loaded>>
                ELSE /\ inflows' = inflow_list
                     /\ elementary_flows' = NonZero(datasetElementary)
                     /\ outflows' = OutflowTable(outflow_list)
                     /\ flowsPickle' = IF save_interm
                                       THEN <<inflows', elementary_flows', outflows'>>
                                       ELSE flowsPickle
                     /\ pc' = "get_labels"
                     /\ UNCHANGED <<err, loaded>>
    /\ UNCHANGED <<prefer_pickles, save_interm, labelsPickle, datasetVars, tolVars, sutVars, logVars, charVars, PRO, STR, unsourced_flows, i, logWarnCallable, auditFiles,
                   missing_activities, matrixVars, saved, file_formats, run, handled, resolved>>

\* get_labels: build_PRO and build_STR, or the pickled labels
GetLabels ==
    /\ pc = "get_labels"
    /\ IF prefer_pickles /\ labelsPickle # <<>>
       THEN /\ PRO' = labelsPickle[1]
            /\ STR' = labelsPickle[2]
            /\ loaded' = loaded \cup {"labels"}
            /\ UNCHANGED labelsPickle
       ELSE /\ PRO' = LabelTable(datasetFiles, labelsHaveType)
            /\ STR' = StressorIds
            /\ labelsPickle' = IF save_interm THEN <<PRO', STR'>> ELSE labelsPickle
            /\ UNCHANGED loaded
    /\ pc' = "find_unsourced_flows"
    /\ UNCHANGED <<prefer_pickles, save_interm, flowsPickle, datasetVars, tolVars, sutVars, logVars, charVars, flowVars, unsourced_flows, i, logWarnCallable, auditFiles,
                   missing_activities, matrixVars, saved, file_formats, err, run, handled, resolved>>

\* __find_unsourced_flows
FindUnsourcedFlows ==
    /\ pc = "find_unsourced_flows"
    /\ LET any == \E k \in 1..Len(inflows) : nuns(inflows, k)
           table == IF labelsHaveType
                    THEN [isNone |-> FALSE, merged |-> TRUE,
                          rows |-> MergedUnsourced(inflows, PRO)]
                    ELSE [isNone |-> FALSE, merged |-> FALSE,
                          rows |-> PlainUnsourced(inflows)]
       IN  IF any /\ ~logWarnCallable
           THEN /\ Raise("__find_unsourced_flows")
                /\ UNCHANGED <<unsourced_flows, resolved>>
           ELSE /\ unsourced_flows' = IF any THEN table ELSE unsourced_flows
                /\ pc' = IF unsourced_flows'.isNone \/ Len(unsourced_flows'.rows) = 0
                         THEN "fix_missing_activities" ELSE "fix_flow_sources"
                /\ resolved' = IF ~unsourced_flows'.isNone /\ Len(unsourced_flows'.rows) = 0
                               THEN Append(resolved, [sources |-> SourceColumn(inflows),
                                                      raised |-> FALSE])
                               ELSE resolved
                /\ err' = err
    /\ i' = 1
    /\ handled' = <<>>
    /\ UNCHANGED <<cacheVars, datasetVars, tolVars, sutVars, logVars, charVars, flowVars, PRO, STR, logWarnCallable, auditFiles,
                   missing_activities, matrixVars, saved, file_formats, run>>

\* __fix_flow_sources: one iteration of its loop over self.unsourced_flows
FixFlowSources ==
    /\ pc = "fix_flow_sources"
    /\ LET aflow == unsourced_flows.rows[i]
           rule == RuleOf(aflow, PRO)
           ids == ActIdArray(rule, aflow, PRO)
           last == i = Len(unsourced_flows.rows)
       IN  IF ~unsourced_flows.merged \/ (rule \in WarnRules /\ ~logWarnCallable)
           THEN /\ Raise("__fix_flow_sources")
                /\ resolved' = Append(resolved, [sources |-> SourceColumn(inflows),
                                                 raised |-> TRUE])
                /\ UNCHANGED <<inflows, i, logWarnCallable, auditFiles, handled>>
           ELSE /\ \E act_id \in (IF Len(ids) = 0 THEN {Blank} ELSE Range(ids)) :
                      inflows' = IF rule \in OrdinaryRules
                                 THEN [inflows EXCEPT ![aflow.index].sourceActivityId = act_id]
                                 ELSE inflows
                /\ logWarnCallable' = (logWarnCallable /\ rule # "producer_and_market")
                /\ auditFiles' =
                      IF rule = "ambiguous"
                      THEN { f \in auditFiles : ~(f.productId = aflow.productId
                                                  /\ f.fileId = aflow.fileId) }
                           \cup {PotentialSources(aflow, PRO)}
                      ELSE auditFiles
                /\ handled' = Append(handled, [flow |-> aflow, rule |-> rule])
                /\ i' = i + 1
                /\ pc' = IF last THEN "fix_missing_activities" ELSE pc
                /\ resolved' = IF last
                               THEN Append(resolved, [sources |-> SourceColumn(inflows'),
                                                      raised |-> FALSE])
                               ELSE resolved
                /\ err' = err
    /\ UNCHANGED <<cacheVars, datasetVars, tolVars, sutVars, logVars, charVars, outflows, elementary_flows, PRO, STR, unsourced_flows,
                   missing_activities, matrixVars, saved, file_formats, run>>

\* __fix_missing_activities
FixMissingActivities ==
    /\ pc = "fix_missing_activities"
    /\ LET miss == MissingActivities(inflows, PRO)
       IN  IF miss = {}
           THEN /\ pc' = "complement_labels"
                /\ UNCHANGED <<PRO, outflows, missing_activities, err>>
           ELSE IF (\E m \in miss : m[1] = None) \/ ~to_csv_kwds \/ ~logWarnCallable
           THEN /\ Raise("__fix_missing_activities")
                /\ UNCHANGED <<PRO, outflows, missing_activities>>
           ELSE /\ PRO' = WithDummyLabels(PRO, SortedIds(miss))
                /\ outflows' = WithDummyOutflows(outflows, SortedIds(miss))
                /\ missing_activities' = miss
                /\ pc' = "complement_labels"
                /\ err' = err
    /\ UNCHANGED <<cacheVars, datasetVars, tolVars, sutVars, logVars, charVars, inflows, elementary_flows, STR, unsourced_flows, i,
                   logWarnCallable, auditFiles, matrixVars, saved, file_formats, run, handled, resolved>>

\* complement_labels
ComplementLabels ==
    /\ pc = "complement_labels"
    /\ PRO' = SortTable(PRO)
    /\ pc' = "build_AF"
    /\ UNCHANGED <<cacheVars, datasetVars, tolVars, sutVars, logVars, charVars, flowVars, STR, unsourced_flows, i, logWarnCallable,
                   auditFiles, missing_activities, matrixVars, saved, file_formats, err, run, handled,
                   resolved>>

\* build_AF, and the choice of with_absolute_flows that follows it
BuildAF ==
    /\ pc = "build_AF"
    /\ IF PivotHasDuplicates(inflows) \/ HasDuplicateIndex(outflows)
       THEN /\ Raise("build_AF")
            /\ UNCHANGED <<A, F, built>>
       ELSE /\ A' = [r \in IndexOf(PRO), c \in IndexOf(PRO) |->
                        ACell(inflows, outflows, r, c, positive_waste, nan2null)]
            /\ F' = [e \in Range(STR), c \in IndexOf(PRO) |->
                        FCell(elementary_flows, outflows, e, c, positive_waste, nan2null)]
            /\ built' = built \cup {"AF"}
            /\ \E with_absolute_flows \in BOOLEAN :
                  pc' = IF with_absolute_flows THEN "scale_up_AF" ELSE "save_system"
            /\ err' = err
    /\ UNCHANGED <<cacheVars, datasetVars, tolVars, sutVars, logVars, charVars, flowVars, PRO, STR, unsourced_flows, i, logWarnCallable,
                   auditFiles, missing_activities, Z, G_pro, saved, file_formats, run, handled, resolved>>

\* scale_up_AF
ScaleUpAF ==
    /\ pc = "scale_up_AF"
    /\ IF HasDuplicateIndex(outflows)
       THEN /\ Raise("scale_up_AF")
            /\ UNCHANGED <<Z, G_pro, built>>
       ELSE /\ Z' = [r \in IndexOf(PRO), c \in IndexOf(PRO) |-> ScaledCell(A, outflows, r, c)]
            /\ G_pro' = [e \in Range(STR), c \in IndexOf(PRO) |->
                            ScaledCell(F, outflows, e, c)]
            /\ built' = built \cup {"ZG"}
            /\ pc' = "save_system"
            /\ err' = err
    /\ UNCHANGED <<cacheVars, datasetVars, tolVars, sutVars, logVars, charVars, flowVars, PRO, STR, unsourced_flows, i, logWarnCallable,
                   auditFiles, missing_activities, A, F, saved, file_formats, run, handled, resolved>>

\* save_system(fileformats), then the end of ecospold_to_Leontief
SaveSystem ==
    /\ pc = "save_system"
    /\ \E ff \in FormatChoices :
          /\ file_formats' = ff
          /\ IF ~ff.given
             THEN /\ saved' = FormatsBeforeArdaTest(ff)
                  /\ Raise("save_system")
             ELSE /\ saved' = FormatsWritten(ff)
                  /\ pc' = "done"
                  /\ err' = err
    /\ UNCHANGED <<cacheVars, datasetVars, tolVars, sutVars, logVars, charVars, flowVars, PRO, STR, unsourced_flows, i, logWarnCallable,
                   auditFiles, missing_activities, matrixVars, run, handled, resolved>>

\* build_sut(make_untraceable), on the tables the parser holds
BuildSut ==
    /\ pc = "build_sut"
    /\ sutCalls < MaxSutCalls
    /\ \E flag \in BOOLEAN :
          /\ make_untraceable' = flag
          /\ U' = IF flag
                  THEN [p \in Products, a \in Activities |->
                          IF nan2null THEN FillNa0(UntraceableCell(inflows, p, a))
                          ELSE UntraceableCell(inflows, p, a)]
                  ELSE [sp \in UseRows(inflows), a \in Activities |->
                          IF nan2null THEN FillNa0(UseCell(inflows, sp, a))
                          ELSE UseCell(inflows, sp, a)]
    /\ V' = [p \in Products, a \in Activities |->
                IF nan2null THEN FillNa0(SupplyCell(outflows, p, a))
                ELSE SupplyCell(outflows, p, a)]
    /\ V_prodVol' = [p \in Products, a \in Activities |-> ProdVolCell(outflows, p, a)]
    /\ G_act' = [e \in Range(STR), a \in Activities |->
                    IF nan2null THEN FillNa0(ExtensionCell(elementary_flows, e, a))
                    ELSE ExtensionCell(elementary_flows, e, a)]
    /\ sutCalls' = sutCalls + 1
    /\ built' = built \cup {"SUT"}
    /\ UNCHANGED <<cacheVars, datasetVars, tolVars, logVars, charVars, flowVars, PRO, STR, unsourced_flows, i,
                   logWarnCallable, auditFiles, missing_activities, A, F, Z, G_pro, saved,
                   file_formats, pc, err, run, handled, resolved>>

\* _updatenull_log(sql_command, 'foo', 'anId'), with the update of test_execute_log
UpdateNullLog ==
    /\ pc = "updatenull_log"
    /\ Len(changes) < MaxLogCalls
    /\ LET i0 == NullCount(foo)
           updated == FillNulls(foo, fou)
           i1 == NullCount(updated)
       IN  IF UniqueViolated(updated)
           THEN /\ Raise("_updatenull_log")
                /\ UNCHANGED <<foo, changes>>
           ELSE /\ foo' = updated
                /\ changes' = Append(changes, i0 - i1)
                /\ UNCHANGED <<pc, err>>
    /\ UNCHANGED <<cacheVars, datasetVars, tolVars, sutVars, charVars, flowVars, matrixVars, fou, PRO, STR,
                   unsourced_flows, i, logWarnCallable, auditFiles, missing_activities,
                   saved, file_formats, run, handled, resolved>>

\* _integrate_flows_withCAS(('raw_char', 'raw_inventory'))
IntegrateFlowsWithCAS ==
    /\ pc = "integrate_flows_withCAS"
    /\ LET char == WithCAS(raw_char, substances, names)
           inv == WithCAS(raw_inventory, char.substances, char.names)
       IN  /\ raw_char' = char.table
           /\ raw_inventory' = inv.table
           /\ substances' = inv.substances
           /\ names' = inv.names
    /\ pc' = "integrate_flows_withoutCAS"
    /\ UNCHANGED <<cacheVars, datasetVars, tolVars, sutVars, logVars, flowVars, matrixVars, factors,
                   labels_inventory, labels_char, labels_out, obs2char, unchar_flow,
                   unchar_subst, custom_factors, customLog, factor_conflicts, C, IMP,
                   IMP_old, PRO, STR,
                   unsourced_flows, i, logWarnCallable, auditFiles, missing_activities,
                   saved, file_formats, err, run, handled, resolved>>

\* _integrate_flows_withoutCAS(('raw_char', 'raw_inventory'))
IntegrateFlowsWithoutCAS ==
    /\ pc = "integrate_flows_withoutCAS"
    /\ LET char == WithoutCAS(raw_char, substances, names)
           inv == WithoutCAS(raw_inventory, char.substances, char.names)
       IN  /\ raw_char' = char.table
           /\ raw_inventory' = inv.table
           /\ substances' = inv.substances
           /\ names' = inv.names
    /\ pc' = "finalize_labels_and_factors"
    /\ UNCHANGED <<cacheVars, datasetVars, tolVars, sutVars, logVars, flowVars, matrixVars, factors,
                   labels_inventory, labels_char, labels_out, obs2char, unchar_flow,
                   unchar_subst, custom_factors, customLog, factor_conflicts, C, IMP,
                   IMP_old, PRO, STR,
                   unsourced_flows, i, logWarnCallable, auditFiles, missing_activities,
                   saved, file_formats, err, run, handled, resolved>>

\* _finalize_labels_and_factors(('raw_char', 'raw_inventory')); the tables
\* nameHasScheme, comp and subcomp play no part in the matching
FinalizeLabelsAndFactors ==
    /\ pc = "finalize_labels_and_factors"
    /\ LET populated == InsertFactors(factors, FactorRows(raw_char))
           customized == CustomizeAll(populated, names, custom_factors, 1)
       IN  /\ factors' = customized
           /\ customLog' = customLog \o CustomLogOf(populated, names, custom_factors, 1)
           /\ factor_conflicts' = FactorConflicts(customized, substances)
    /\ labels_char' = labels_char \o LabelRows(raw_char)
    /\ labels_inventory' = labels_inventory \o LabelRows(raw_inventory)
    /\ pc' = "characterisation_matching"
    /\ UNCHANGED <<cacheVars, datasetVars, tolVars, sutVars, logVars, flowVars, matrixVars, raw_inventory,
                   raw_char, substances, names, labels_out, obs2char, unchar_flow,
                   unchar_subst, custom_factors, C, IMP, IMP_old, PRO, STR,
                   unsourced_flows, i, logWarnCallable, auditFiles, missing_activities,
                   saved, file_formats, err, run, handled, resolved>>

\* _characterisation_matching, self.STR_old being None: no old label gives an
\* ardaid
CharacterisationMatching ==
    /\ pc = "characterisation_matching"
    /\ LET inventoried == labels_out \o InventoryLabelsOut(labels_inventory)
           lo == inventoried \o CharLabelsOut(labels_char, inventoried)
       IN  /\ labels_out' = lo
           /\ IF LinksClash(obs2char \o StageRows(lo, factors, 1))
              THEN /\ Raise("_characterisation_matching")
                   /\ UNCHANGED <<obs2char, unchar_flow, unchar_subst>>
              ELSE /\ obs2char' = Cascade(obs2char, lo, factors)
                   /\ unchar_flow' = UncharacterizedFlows(lo, obs2char')
                   /\ unchar_subst' = UncharacterizedSubst(substances, lo, obs2char')
                   /\ pc' = "generate_characterized_extensions"
                   /\ err' = err
    /\ UNCHANGED <<cacheVars, datasetVars, tolVars, sutVars, logVars, flowVars, matrixVars, raw_inventory,
                   raw_char, substances, names, factors, labels_inventory, labels_char,
                   custom_factors, customLog, factor_conflicts, C, IMP, IMP_old, PRO, STR,
                   unsourced_flows, i, logWarnCallable, auditFiles, missing_activities,
                   saved, file_formats, run, handled, resolved>>

\* generate_characterized_extensions; what pivot_table makes of a table without
\* rows depends on the pandas installed: it raises, or it gives an empty table
GenerateCharacterizedExtensions ==
    /\ pc = "generate_characterized_extensions"
    /\ \E pivots \in (IF obs2char = <<>> THEN BOOLEAN ELSE {TRUE}) :
          LET strIndex == [k \in 1..Len(labels_out) |-> k]
              impIndex == OrderedImpacts(Impacts)
              Fnew == ReorganizedF(F, labels_out)
          IN  IF ~pivots
              THEN /\ STR' = strIndex
                   /\ IMP' = impIndex
                   /\ Raise("generate_characterized_extensions")
                   /\ UNCHANGED <<C, F>>
              ELSE /\ STR' = strIndex
                   /\ IMP' = impIndex
                   /\ C' = CharacterisationMatrix(obs2char, impIndex, strIndex)
                   /\ F' = Fnew
                   /\ IF SafetyAssertions(Fnew, F)
                      THEN pc' = "characterized" /\ err' = err
                      ELSE Raise("generate_characterized_extensions")
    /\ UNCHANGED <<cacheVars, datasetVars, tolVars, sutVars, logVars, flowVars, A, Z, G_pro, built,
                   raw_inventory, raw_char, substances, names, factors, labels_inventory,
                   labels_char, labels_out, obs2char, unchar_flow, unchar_subst,
                   custom_factors, customLog, factor_conflicts, IMP_old, PRO,
                   unsourced_flows, i, logWarnCallable, auditFiles, missing_activities,
                   saved, file_formats, run, handled, resolved>>

\* make_compatible_with_arda: the ardaids of the impacts, the order of IMP and
\* of the rows of C; the label columns of PRO, STR and IMP are not kept here
MakeCompatibleWithArda ==
    /\ pc = "characterized"
    /\ LET sorted == SortByArdaId(ComplementArdaId(IMP, IMP_old))
       IN  /\ IMP' = sorted
           /\ C' = ReindexRows(C, sorted)
    /\ pc' = "arda_compatible"
    /\ UNCHANGED <<cacheVars, datasetVars, tolVars, sutVars, logVars, flowVars, A, F, Z, G_pro, built,
                   raw_inventory, raw_char, substances, names, factors, labels_inventory,
                   labels_char, labels_out, obs2char, unchar_flow, unchar_subst,
                   custom_factors, customLog, factor_conflicts, IMP_old, PRO, STR,
                   unsourced_flows, i, logWarnCallable, auditFiles, missing_activities,
                   saved, file_formats, err, run, handled, resolved>>

\* read_characterisation, from the insert into raw_char on; then
\* populate_complementary_tables, which changes no record
ReadCharacterisation ==
    /\ pc = "read_characterisation"
    /\ raw_char' = CharacterisationRead(raw_char)
    /\ pc' = "integrate_flows_withCAS"
    /\ UNCHANGED <<cacheVars, datasetVars, tolVars, sutVars, logVars, flowVars, matrixVars, raw_inventory,
                   substances, names, factors,
                   labels_inventory, labels_char, labels_out, obs2char, unchar_flow,
                   unchar_subst, custom_factors, customLog, factor_conflicts, C, IMP,
                   IMP_old, PRO, STR,
                   unsourced_flows, i, logWarnCallable, auditFiles, missing_activities,
                   saved, file_formats, err, run, handled, resolved>>

\* the process ends between two stages of ecospold_to_Leontief
Interrupt ==
    /\ pc \in {"get_labels", "find_unsourced_flows"}
    /\ pc' = "interrupted"
    /\ UNCHANGED <<cacheVars, datasetVars, tolVars, sutVars, logVars, charVars, flowVars, PRO, STR,
                   unsourced_flows, i, logWarnCallable, auditFiles, missing_activities,
                   matrixVars, saved, file_formats, err, run, handled, resolved>>

\* a new Ecospold2Matrix on the same system directory, in a new process, with
\* its own prefer_pickles and save_interm
NewRun ==
    /\ pc \in {"interrupted", "find_unsourced_flows", "raised"}
    /\ run < MaxRuns
    /\ run' = run + 1
    /\ prefer_pickles' \in BOOLEAN
    /\ save_interm' \in BOOLEAN
    /\ loaded' = {}
    /\ inflows' = <<>>
    /\ outflows' = <<>>
    /\ elementary_flows' = <<>>
    /\ PRO' = <<>>
    /\ STR' = <<>>
    /\ pc' = "get_flows"
    /\ err' = "none"
    /\ UNCHANGED <<flowsPickle, labelsPickle, datasetVars, tolVars, sutVars, logVars, charVars,
                   unsourced_flows, i, logWarnCallable, auditFiles, missing_activities,
                   matrixVars, saved, file_formats, handled, resolved>>

\* cummulative_lci_check: one iteration of the tolerance loop; bad is whether
\* compareE found discrepancies
LciCheckIteration ==
    /\ pc = "cummulative_lci_check"
    /\ i <= imax
    /\ TRUE \in AboveRtolmin(rtol)
    /\ \E bad \in BOOLEAN :
          /\ rtol' = Div10(rtol)
          /\ shelf' = IF bad THEN shelf \cup {rtol'} ELSE shelf
          /\ i' = IF bad THEN i + 1 ELSE i
    /\ UNCHANGED <<cacheVars, datasetVars, sutVars, logVars, charVars, flowVars, PRO, STR,
                   unsourced_flows, logWarnCallable, auditFiles, missing_activities,
                   matrixVars, saved, file_formats, pc, err, run, handled, resolved, imax>>

\* cummulative_lci_check: the loop condition fails, the shelf is closed
LciCheckDone ==
    /\ pc = "cummulative_lci_check"
    /\ ~(i <= imax) \/ FALSE \in AboveRtolmin(rtol)
    /\ pc' = "lci_checked"
    /\ UNCHANGED <<cacheVars, datasetVars, tolVars, sutVars, logVars, charVars, flowVars, PRO,
                   STR, unsourced_flows, i, logWarnCallable, auditFiles, missing_activities,
                   matrixVars, saved, file_formats, err, run, handled, resolved>>

\* a new Ecospold2Matrix of the same project name in the same process, run on
\* the same dataset: the logger of that name is the one the last run left
Restart ==
    /\ pc \in {"done", "raised"}
    /\ run < MaxRuns
    /\ run' = run + 1
    /\ inflows' = <<>>
    /\ outflows' = <<>>
    /\ elementary_flows' = <<>>
    /\ PRO' = <<>>
    /\ STR' = <<>>
    /\ unsourced_flows' = NoUnsourced
    /\ i' = 1
    /\ auditFiles' = {}
    /\ missing_activities' = {}
    /\ A' = NoMatrix /\ F' = NoMatrix /\ Z' = NoMatrix /\ G_pro' = NoMatrix
    /\ built' = {}
    /\ saved' = {}
    /\ file_formats' = NoFormats
    /\ pc' = "get_flows"
    /\ err' = "none"
    /\ handled' = <<>>
    /\ loaded' = {}
    /\ UNCHANGED <<prefer_pickles, save_interm, flowsPickle, labelsPickle, datasetVars, tolVars,
                   sutVars, logVars, charVars, logWarnCallable, resolved>>

Next ==
    \/ GetFlows
    \/ GetLabels
    \/ FindUnsourcedFlows
    \/ FixFlowSources
    \/ FixMissingActivities
    \/ ComplementLabels
    \/ BuildAF
    \/ ScaleUpAF
    \/ SaveSystem
    \/ Restart

\* ---------------------------------------------------------- specifications
\* input exchanges a dataset with the given files may hold
InflowEntries(files, amounts) ==
    [fileId : files, sourceActivityId : LinkChoices, productId : Products, amount : amounts]

\* one outflow entry of amount 1 and production volume 1 per file
RegularOutflows(files) ==
    LET ids == SortedIds(files)
    IN  [k \in 1..Len(ids) |->
            [fileId |-> ids[k], productId |-> ids[k][2], amount |-> 1,
             productionVolume |-> Num(1)]]

\* datasets with regular outflows, and any input exchanges in one of the files
Init ==
    /\ datasetFiles \in { fs \in SUBSET SpoldFiles : Cardinality(fs) \in 1..MaxPRO }
    /\ \E consumer \in datasetFiles :
          datasetInflows \in SeqsUpTo(InflowEntries({consumer}, {1}), MaxInflows)
    /\ datasetOutflows = RegularOutflows(datasetFiles)
    /\ datasetElementary = <<[fileId |-> SortedIds(datasetFiles)[1],
                              elementaryExchangeId |-> "CO2", amount |-> 1]>>
    /\ labelsHaveType \in BOOLEAN
    /\ to_csv_kwds \in BOOLEAN
    /\ positive_waste = FALSE
    /\ nan2null = FALSE
    /\ Constructed
    /\ CacheUnused
    /\ ToleranceUnchecked

Spec == Init /\ [][Next]_vars


\* outflow entries a dataset with the given files may hold
OutflowEntries(files) ==
    { [fileId |-> f, productId |-> f[2], amount |-> a, productionVolume |-> Num(1)] :
        f \in files, a \in {0, 1, 2} }

\* datasets whose files each hold a reference-product entry, and whose outflow
\* entries may be repeated, conflicting or of amount zero
InitExtract ==
    /\ datasetFiles \in { fs \in SUBSET SpoldFiles : Cardinality(fs) \in 1..MaxExtractFiles }
    /\ datasetInflows \in SeqsUpTo(InflowEntries(datasetFiles, {1}), MaxExtractInflows)
    /\ datasetOutflows \in
          { o \in SeqsUpTo(OutflowEntries(datasetFiles), MaxRawOutflows) :
              \A f \in datasetFiles : \E k \in 1..Len(o) : o[k].fileId = f }
    /\ datasetElementary = <<>>
    /\ labelsHaveType \in BOOLEAN
    /\ to_csv_kwds \in BOOLEAN
    /\ positive_waste = FALSE
    /\ nan2null = FALSE
    /\ Constructed
    /\ CacheUnused
    /\ ToleranceUnchecked

SpecExtract == InitExtract /\ [][Next]_vars

\* the rows T as a table, in some fixed order
RECURSIVE AsTable(_)
AsTable(T) ==
    IF T = {} THEN <<>>
    ELSE LET x == CHOOSE y \in T : TRUE IN <<x>> \o AsTable(T \ {x})

\* the tables of at most n different rows taken from S
TablesUpTo(S, n) == { AsTable(T) : T \in { sub \in SUBSET S : Cardinality(sub) <= n } }

\* tables handed to build_AF directly, as the unit tests do
AFProcesses == { fileIdOf("a1", "p1"), fileIdOf("a2", "p1") }
AFInflows ==
    [fileId : AFProcesses, sourceActivityId : {"a1", "a2"}, productId : {"p1"},
     amount : {0 - 1, 2}]
AFOutflows ==
    { [index |-> f, fileId |-> f, productId |-> f[2], amount |-> x[1],
       productionVolume |-> x[2]] :
        f \in AFProcesses, x \in { <<0 - 2, Num(3)>>, <<1, NaN>>, <<1, Num(3)>> } }
AFElementary ==
    [fileId : AFProcesses, elementaryExchangeId : {"CO2"}, amount : {3, 5}]

InitAF ==
    /\ datasetFiles = AFProcesses
    /\ datasetInflows = <<>>
    /\ datasetOutflows = <<>>
    /\ datasetElementary = <<>>
    /\ labelsHaveType = TRUE
    /\ to_csv_kwds = TRUE
    /\ positive_waste \in BOOLEAN
    /\ nan2null \in BOOLEAN
    /\ inflows \in TablesUpTo(AFInflows, MaxInflows)
    /\ outflows \in TablesUpTo(AFOutflows, MaxRawOutflows)
    /\ elementary_flows \in TablesUpTo(AFElementary, MaxElementary)
    /\ PRO = LabelTable(AFProcesses, TRUE)
    /\ STR = StressorIds
    /\ unsourced_flows = NoUnsourced
    /\ i = 1
    /\ logWarnCallable = TRUE
    /\ auditFiles = {}
    /\ missing_activities = {}
    /\ A = NoMatrix /\ F = NoMatrix /\ Z = NoMatrix /\ G_pro = NoMatrix
    /\ built = {}
    /\ saved = {}
    /\ file_formats = NoFormats
    /\ SutUnbuilt
    /\ CharUnused
    /\ CacheUnused
    /\ ToleranceUnchecked
    /\ pc = "build_AF"
    /\ err = "none"
    /\ run = 1
    /\ handled = <<>>
    /\ resolved = <<>>

NextAF ==
    \/ BuildAF
    \/ ScaleUpAF
    \/ SaveSystem

SpecAF == InitAF /\ [][NextAF]_vars

\* flow tables handed to build_sut directly, as the unit tests do
SutFiles == { fileIdOf("a1", "p1"), fileIdOf("a1", "p2"), fileIdOf("a2", "p1") }
SutInflows ==
    [fileId : SutFiles, sourceActivityId : {None, "a2"}, productId : {"p1"},
     amount : {0 - 1, 2}]
SutOutflows ==
    { [index |-> f, fileId |-> f, productId |-> f[2], amount |-> 1,
       productionVolume |-> Num(1)] : f \in SutFiles }
SutElementary ==
    [fileId : SutFiles, elementaryExchangeId : {"CO2"}, amount : {3}]

InitSUT ==
    /\ datasetFiles = SutFiles
    /\ datasetInflows = <<>>
    /\ datasetOutflows = <<>>
    /\ datasetElementary = <<>>
    /\ labelsHaveType = TRUE
    /\ to_csv_kwds = TRUE
    /\ positive_waste = FALSE
    /\ nan2null \in BOOLEAN
    /\ inflows \in (TablesUpTo(SutInflows, MaxInflows) \ {<<>>})
    /\ outflows \in (TablesUpTo(SutOutflows, MaxRawOutflows) \ {<<>>})
    /\ elementary_flows \in (TablesUpTo(SutElementary, 1) \ {<<>>})
    /\ PRO = LabelTable(SutFiles, TRUE)
    /\ STR = StressorIds
    /\ unsourced_flows = NoUnsourced
    /\ i = 1
    /\ logWarnCallable = TRUE
    /\ auditFiles = {}
    /\ missing_activities = {}
    /\ A = NoMatrix /\ F = NoMatrix /\ Z = NoMatrix /\ G_pro = NoMatrix
    /\ built = {}
    /\ saved = {}
    /\ file_formats = NoFormats
    /\ SutUnbuilt
    /\ CharUnused
    /\ CacheUnused
    /\ ToleranceUnchecked
    /\ pc = "build_sut"
    /\ err = "none"
    /\ run = 1
    /\ handled = <<>>
    /\ resolved = <<>>

NextSUT == BuildSut

SpecSUT == InitSUT /\ [][NextSUT]_vars

\* a parser on which no method of the conversion has run
ParserIdle ==
    /\ CacheUnused
    /\ datasetFiles = {}
    /\ datasetInflows = <<>>
    /\ datasetOutflows = <<>>
    /\ datasetElementary = <<>>
    /\ labelsHaveType = TRUE
    /\ to_csv_kwds = TRUE
    /\ positive_waste = FALSE
    /\ nan2null = FALSE
    /\ inflows = <<>>
    /\ outflows = <<>>
    /\ elementary_flows = <<>>
    /\ PRO = <<>>
    /\ unsourced_flows = NoUnsourced
    /\ i = 1
    /\ logWarnCallable = TRUE
    /\ auditFiles = {}
    /\ missing_activities = {}
    /\ A = NoMatrix /\ Z = NoMatrix /\ G_pro = NoMatrix
    /\ built = {}
    /\ saved = {}
    /\ file_formats = NoFormats
    /\ SutUnbuilt
    /\ err = "none"
    /\ run = 1
    /\ handled = <<>>
    /\ resolved = <<>>

\* the rows the tables foo and fou of test_execute_log may hold
LogRows == [aName : {"soleil", "lune", "etoile"}, anId : {NullId, 7, 8}]

\* foo and fou as created and filled by the test: both columns unique
InitLog ==
    /\ ParserIdle
    /\ ToleranceUnchecked
    /\ STR = <<>> /\ F = NoMatrix
    /\ foo \in { t \in SeqsUpTo(LogRows, MaxFooRows) : ~UniqueViolated(t) }
    /\ fou \in { t \in SeqsUpTo(LogRows, MaxFouRows) : ~UniqueViolated(t) }
    /\ changes = <<>>
    /\ raw_inventory = <<>> /\ raw_char = <<>>
    /\ substances = <<>> /\ names = <<>> /\ factors = <<>>
    /\ labels_inventory = <<>> /\ labels_char = <<>> /\ labels_out = <<>>
    /\ obs2char = <<>> /\ unchar_flow = <<>> /\ unchar_subst = {}
    /\ custom_factors = <<>> /\ customLog = <<>> /\ factor_conflicts = {}
    /\ C = NoMatrix /\ IMP = <<>> /\ IMP_old = <<>>
    /\ pc = "updatenull_log"

NextLog == UpdateNullLog

SpecLog == InitLog /\ [][NextLog]_vars

\* ids of the rows of raw_inventory (the index of STR) and of raw_char
InventoryIds == <<"e1", "e2", "e3", "e4">>
CharIds == <<"c1", "c2", "c3", "c4">>

\* the process whose elementary flows F holds
CharProcess == fileIdOf("a1", "p1")

\* the table made of the chosen rows, in the order of the choices, with the ids
\* of its rows and no substance yet
RawTable(choices, chosen, ids) ==
    LET order == Ascending(chosen, [x \in chosen |-> x])
    IN  [k \in 1..Len(order) |->
            [col \in DOMAIN choices[order[k]] \cup {"id", "substid"} |->
                IF col = "id" THEN ids[k]
                ELSE IF col = "substid" THEN NullId
                ELSE choices[order[k]][col]]]

\* the tables that hold up to n of the rows to choose from
RawTables(choices, n, ids) ==
    { RawTable(choices, chosen, ids) :
        chosen \in { S \in SUBSET (1..Len(choices)) : Cardinality(S) <= n } }

\* cleaned inventory labels of one compartment: name, cas and tag vary
InventoryLabelChoices ==
    LET nms == <<"CO2", None>>
        css == <<None, "124-38-9">>
        tgs == <<None, "fossil">>
    IN  [n \in 1..8 |->
            [name |-> nms[((n - 1) % 2) + 1], name2 |-> None,
             cas |-> css[(((n - 1) \div 2) % 2) + 1],
             tag |-> tgs[(((n - 1) \div 4) % 2) + 1],
             comp |-> "water", subcomp |-> "river", unit |-> "kg"]]

\* cleaned records of the characterisation method: names, cas and tag vary
CharLabelChoices ==
    LET nms == <<<<"co2", None>>, <<None, "carbon dioxide">>, <<None, None>>>>
        css == <<None, "124-38-9">>
        tgs == <<None, "fossil">>
    IN  [n \in 1..12 |->
            [name |-> nms[((n - 1) % 3) + 1][1], name2 |-> nms[((n - 1) % 3) + 1][2],
             cas |-> css[(((n - 1) \div 3) % 2) + 1],
             tag |-> tgs[(((n - 1) \div 6) % 2) + 1],
             comp |-> "water", subcomp |-> "river", unit |-> "kg",
             impactId |-> "GWP100", factorValue |-> 2]]

\* F as build_AF leaves it: a row for each stressor of the inventory
ExtensionOf(inventory) ==
    [e \in { inventory[k].id : k \in 1..Len(inventory) }, c \in {CharProcess} |-> Num(3)]

\* the old impact labels: accronym and ardaid
OldImpactChoices ==
    { <<[accronym |-> "GWP100", ardaid |-> 5]>>,
      <<[accronym |-> "FETP", ardaid |-> 3], [accronym |-> "GWP100", ardaid |-> 5]>> }

\* the state in which characterize_flows is called: the database initialized,
\* the raw tables filled and cleaned, no substance yet
CharacterizeCalled ==
    /\ ParserIdle
    /\ ToleranceUnchecked
    /\ foo = <<>> /\ fou = <<>> /\ changes = <<>>
    /\ STR = [k \in 1..Len(raw_inventory) |-> raw_inventory[k].id]
    /\ F = ExtensionOf(raw_inventory)
    /\ substances = <<>> /\ names = <<>> /\ factors = <<>>
    /\ labels_inventory = <<>> /\ labels_char = <<>> /\ labels_out = <<>>
    /\ obs2char = <<>> /\ unchar_flow = <<>> /\ unchar_subst = {}
    /\ customLog = <<>> /\ factor_conflicts = {}
    /\ C = NoMatrix /\ IMP = <<>>
    /\ pc = "integrate_flows_withCAS"

\* records of both vocabularies that differ in name, cas and tag
InitSubst ==
    /\ raw_inventory \in RawTables(InventoryLabelChoices, MaxRawInventory, InventoryIds)
    /\ raw_char \in RawTables(CharLabelChoices, MaxRawChar, CharIds)
    /\ custom_factors = <<>>
    /\ IMP_old = <<[accronym |-> "GWP100", ardaid |-> 5]>>
    /\ CharacterizeCalled

NextChar ==
    \/ IntegrateFlowsWithCAS
    \/ IntegrateFlowsWithoutCAS
    \/ FinalizeLabelsAndFactors
    \/ CharacterisationMatching
    \/ GenerateCharacterizedExtensions
    \/ MakeCompatibleWithArda

SpecSubst == InitSubst /\ [][NextChar]_vars

\* inventory labels of one substance: the compartment and the subcompartment
\* vary
ObservedFlowChoices ==
    LET scs == <<"river", "river, long-term", "lake", "low population density">>
    IN  [n \in 1..4 |->
            [name |-> "CO2", name2 |-> None, cas |-> "124-38-9", tag |-> None,
             comp |-> IF n = 4 THEN "air" ELSE "water", subcomp |-> scs[n],
             unit |-> "kg"]]

\* records of the method for that substance: subcompartment, impact and factor
\* value vary
CharFactorChoices ==
    LET scs == <<"river", "unspecified">>
        imps == <<"GWP100", "FETP">>
        vals == <<2, 3>>
    IN  [n \in 1..8 |->
            [name |-> "co2", name2 |-> None, cas |-> "124-38-9", tag |-> None,
             comp |-> "water", subcomp |-> scs[((n - 1) % 2) + 1], unit |-> "kg",
             impactId |-> imps[(((n - 1) \div 2) % 2) + 1],
             factorValue |-> vals[(((n - 1) \div 4) % 2) + 1]]]

\* rows of parameters/custom_factors.csv: one for a name of the substance, one
\* for a name no record carries
CustomChoices ==
    [aName : {"CO2", "methane"}, comp : {"water"}, subcomp : {"river"}, unit : {"kg"},
     impactID : {"GWP100"}, factorValue : {7}]

\* flows and factors of one substance that differ in subcompartment, impact and
\* value, with or without custom factors
InitChar ==
    /\ raw_inventory \in (RawTables(ObservedFlowChoices, MaxRawInventory, InventoryIds)
                          \ {<<>>})
    /\ raw_char \in RawTables(CharFactorChoices, MaxRawChar, CharIds)
    /\ custom_factors \in SeqsUpTo(CustomChoices, MaxCustom)
    /\ IMP_old \in OldImpactChoices
    /\ CharacterizeCalled

SpecChar == InitChar /\ [][NextChar]_vars

\* records of a method as read from its spreadsheet: the writing of the
\* compartment, the name and the cas vary
ReadChoices ==
    LET cps == <<"water", "Water", " water", "air">>
        nms == <<<<"Copper", "Copper", "7440-50-8">>, <<"copper", "Copper", "7440-50-8">>,
                 <<"Zinc", "Zinc", "7440-66-6">>, <<"Chromium", "Chromium", "7440-47-3">>>>
    IN  [n \in 1..16 |->
            [name |-> nms[((n - 1) \div 4) + 1][1], name2 |-> nms[((n - 1) \div 4) + 1][2],
             cas |-> nms[((n - 1) \div 4) + 1][3], tag |-> None,
             comp |-> cps[((n - 1) % 4) + 1], subcomp |-> "river", unit |-> "kg",
             impactId |-> "FETP", factorValue |-> 2]]

\* the inventory holds ionic copper to water; the method is about to be read
InitRead ==
    /\ raw_inventory = RawTable(<<[name |-> "Copper, ion", name2 |-> None,
                                   cas |-> "17493-86-6", tag |-> None, comp |-> "water",
                                   subcomp |-> "river", unit |-> "kg"]>>, {1}, InventoryIds)
    /\ raw_char \in RawTables(ReadChoices, MaxRawChar, CharIds)
    /\ custom_factors = <<>>
    /\ IMP_old = <<[accronym |-> "GWP100", ardaid |-> 5]>>
    /\ ParserIdle
    /\ ToleranceUnchecked
    /\ foo = <<>> /\ fou = <<>> /\ changes = <<>>
    /\ STR = [k \in 1..Len(raw_inventory) |-> raw_inventory[k].id]
    /\ F = ExtensionOf(raw_inventory)
    /\ substances = <<>> /\ names = <<>> /\ factors = <<>>
    /\ labels_inventory = <<>> /\ labels_char = <<>> /\ labels_out = <<>>
    /\ obs2char = <<>> /\ unchar_flow = <<>> /\ unchar_subst = {}
    /\ customLog = <<>> /\ factor_conflicts = {}
    /\ C = NoMatrix /\ IMP = <<>>
    /\ pc = "read_characterisation"

NextRead == ReadCharacterisation \/ NextChar

SpecRead == InitRead /\ [][NextRead]_vars

\* cleaned inventory labels: names that the synonym table relates, with a cas or
\* without
SynonymInventoryChoices ==
    LET rows == <<<<"CO2", "124-38-9">>, <<"dry ice", "1-1-1">>, <<"co2", None>>,
                  <<"dry ice", None>>>>
    IN  [n \in 1..4 |->
            [name |-> rows[n][1], name2 |-> None, cas |-> rows[n][2], tag |-> None,
             comp |-> "water", subcomp |-> "river", unit |-> "kg"]]

\* cleaned records of the method, likewise
SynonymCharChoices ==
    LET rows == <<<<"carbon dioxide", None>>, <<"co2", None>>, <<"dry ice", None>>,
                  <<"carbon dioxide", "2-2-2">>>>
    IN  [n \in 1..4 |->
            [name |-> rows[n][1], name2 |-> None, cas |-> rows[n][2], tag |-> None,
             comp |-> "water", subcomp |-> "river", unit |-> "kg",
             impactId |-> "GWP100", factorValue |-> 2]]

\* records of both vocabularies whose names are synonyms of each other
InitSyn ==
    /\ raw_inventory \in RawTables(SynonymInventoryChoices, MaxRawInventory, InventoryIds)
    /\ raw_char \in RawTables(SynonymCharChoices, MaxRawChar, CharIds)
    /\ custom_factors = <<>>
    /\ IMP_old = <<[accronym |-> "GWP100", ardaid |-> 5]>>
    /\ CharacterizeCalled

SpecSyn == InitSyn /\ [][NextChar]_vars

\* runs of get_flows and get_labels on one system directory, which holds no
\* pickle before the first run
InitCache ==
    /\ datasetFiles \in { fs \in SUBSET SpoldFiles : Cardinality(fs) \in 1..MaxPRO }
    /\ datasetInflows \in SeqsUpTo(InflowEntries({SortedIds(datasetFiles)[1]}, {1}), 1)
    /\ datasetOutflows = RegularOutflows(datasetFiles)
    /\ datasetElementary = <<[fileId |-> SortedIds(datasetFiles)[1],
                              elementaryExchangeId |-> "CO2", amount |-> 1]>>
    /\ labelsHaveType = TRUE
    /\ to_csv_kwds = TRUE
    /\ positive_waste = FALSE
    /\ nan2null = FALSE
    /\ Constructed
    /\ prefer_pickles \in BOOLEAN
    /\ save_interm \in BOOLEAN
    /\ flowsPickle = <<>>
    /\ labelsPickle = <<>>
    /\ loaded = {}
    /\ ToleranceUnchecked

NextCache ==
    \/ GetFlows
    \/ GetLabels
    \/ Interrupt
    \/ NewRun

SpecCache == InitCache /\ [][NextCache]_vars

\* cummulative_lci_check(rtol, atol, imax) called with an empty shelf
Mantissas == {0 - 1, 0, 1, 5}
InitTol ==
    /\ ParserIdle
    /\ STR = <<>> /\ F = NoMatrix
    /\ CharUnused
    /\ rtol \in [m : Mantissas, e : (rtolmin.e - 1)..(rtolmin.e + MaxDecades)]
    /\ imax \in 0..MaxImax
    /\ shelf = {}
    /\ pc = "cummulative_lci_check"

NextTol ==
    \/ LciCheckIteration
    \/ LciCheckDone

\* the loop is not suspended: a step is taken as long as one can be
SpecTol == InitTol /\ [][NextTol]_vars /\ WF_vars(NextTol)

\* ------------------------------------------------------------------ properties
\* C1: once __fix_missing_activities has run, the (sourceActivityId, productId)
\* pair of every input flow is the (activityId, productId) pair of some process
\* that has an outflow record.
C1_RepairClosure ==
    (\/ pc \in {"complement_labels", "build_AF", "scale_up_AF", "save_system", "done"}
     \/ (pc = "raised" /\ err \in {"__fix_missing_activities", "build_AF",
                                   "scale_up_AF", "save_system"}))
    => \A k \in 1..Len(inflows) :
          \E j \in 1..Len(PRO) :
              /\ PRO[j].activityId = inflows[k].sourceActivityId
              /\ PRO[j].productId = inflows[k].productId
              /\ HasOutflow(outflows, PRO[j].index)

\* C2: a run in which some input flow stays unresolved is not aborted by that
\* flow: neither the resolver nor the repairer ends the run with an exception
\* while an input flow is without supplier.
C2_UnresolvedFlowDoesNotAbort ==
    ~(/\ pc = "raised"
      /\ err \in {"__fix_flow_sources", "__fix_missing_activities"}
      /\ \E k \in 1..Len(inflows) : inflows[k].sourceActivityId \in {None, Blank})

\* C3: __fix_flow_sources reaches the end of its table of unsourced flows
\* without raising, whatever the flows before the current one were.
C3_ResolverHandlesEveryFlow ==
    unsourced_flows.merged => ~(pc = "raised" /\ err = "__fix_flow_sources")

\* C4: every unsourced flow of an ordinary activity that the resolver has come
\* to, and whose product exactly one process produces, has that process's
\* activity recorded as its sourceActivityId, and no potentialSources file.
C4_SingleProducerRecorded ==
    (/\ unsourced_flows.merged
     /\ \/ pc \in {"fix_flow_sources", "fix_missing_activities"}
        \/ (pc = "raised" /\ err = "__fix_flow_sources"))
    => \A j \in 1..Len(unsourced_flows.rows) :
          LET aflow == unsourced_flows.rows[j]
              producers == { k \in 1..Len(PRO) : PRO[k].productId = aflow.productId }
          IN  (/\ j < i \/ (j = i /\ pc = "raised")
               /\ aflow.activityType = "0"
               /\ Cardinality(producers) = 1)
              => /\ \A k \in producers :
                       inflows[aflow.index].sourceActivityId = PRO[k].activityId
                 /\ ~\E f \in auditFiles : /\ f.productId = aflow.productId
                                           /\ f.fileId = aflow.fileId

C6_ResolutionDeterminism ==
    /\ \A x, y \in 1..Len(resolved) : resolved[x].sources = resolved[y].sources
    /\ (pc = "fix_flow_sources" /\ unsourced_flows.merged)
       => Len(ActIdArray(RuleOf(unsourced_flows.rows[i], PRO),
                         unsourced_flows.rows[i], PRO)) <= 1

\* C6 witness: two executions have ended, and the second gave a supplier to a
\* flow that had none
C6_Witness ==
    /\ Len(resolved) = 2
    /\ ~resolved[1].raised /\ ~resolved[2].raised
    /\ \E k \in 1..Len(datasetInflows) :
          /\ datasetInflows[k].sourceActivityId = None
          /\ resolved[2].sources[k] \in Activities

\* C7: after extract_flows and __fix_missing_activities, every process of the
\* process labels has exactly one outflow record.
C7_OneOutflowPerProcess ==
    pc \in {"complement_labels", "build_AF", "scale_up_AF", "save_system", "done"}
    => \A k \in 1..Len(PRO) :
          Cardinality({ j \in 1..Len(outflows) : outflows[j].fileId = PRO[k].index }) = 1

\* C8 as stated: with positive_waste off, A[r, c] is the amount of the input
\* flow of c supplied by r over the outflow amount of c, F[e, c] the amount of
\* elementary flow e of c over the outflow amount of c, entries without a
\* recorded flow are NaN, and A and F are indexed by the process labels and by
\* stressor labels x process labels.
C8_NormalizedBySignedOutflow ==
    ("AF" \in built /\ ~positive_waste)
    => /\ DOMAIN A = IndexOf(PRO) \X IndexOf(PRO)
       /\ DOMAIN F = Range(STR) \X IndexOf(PRO)
       /\ \A r \in IndexOf(PRO), c \in IndexOf(PRO) :
             LET K == { k \in 1..Len(inflows) :
                          /\ inflows[k].sourceActivityId = r[1]
                          /\ inflows[k].productId = r[2]
                          /\ inflows[k].fileId = c }
                 O == { k \in 1..Len(outflows) : outflows[k].index = c }
             IN  /\ K = {} => A[r, c].nan
                 /\ \A k \in K, o \in O :
                       /\ ~A[r, c].nan
                       /\ A[r, c].n * outflows[o].amount = inflows[k].amount * A[r, c].d
       /\ \A e \in Range(STR), c \in IndexOf(PRO) :
             LET E == { k \in 1..Len(elementary_flows) :
                          /\ elementary_flows[k].elementaryExchangeId = e
                          /\ elementary_flows[k].fileId = c }
                 O == { k \in 1..Len(outflows) : outflows[k].index = c }
             IN  /\ E = {} => F[e, c].nan
                 /\ \A k \in E, o \in O :
                       Cardinality(E) = 1
                       => /\ ~F[e, c].nan
                          /\ F[e, c].n * outflows[o].amount
                                = elementary_flows[k].amount * F[e, c].d

\* C8 as amended: the same, except that entries without a recorded flow are
\* NaN only when nan2null is off, and are 0 when it is on.
C8_NormalizedBySignedOutflowOrNull ==
    ("AF" \in built /\ ~positive_waste)
    => /\ DOMAIN A = IndexOf(PRO) \X IndexOf(PRO)
       /\ DOMAIN F = Range(STR) \X IndexOf(PRO)
       /\ \A r \in IndexOf(PRO), c \in IndexOf(PRO) :
             LET K == { k \in 1..Len(inflows) :
                          /\ inflows[k].sourceActivityId = r[1]
                          /\ inflows[k].productId = r[2]
                          /\ inflows[k].fileId = c }
                 O == { k \in 1..Len(outflows) : outflows[k].index = c }
             IN  /\ (K = {} /\ ~nan2null) => A[r, c].nan
                 /\ (K = {} /\ nan2null) => (~A[r, c].nan /\ A[r, c].n = 0)
                 /\ \A k \in K, o \in O :
                       /\ ~A[r, c].nan
                       /\ A[r, c].n * outflows[o].amount = inflows[k].amount * A[r, c].d
       /\ \A e \in Range(STR), c \in IndexOf(PRO) :
             LET E == { k \in 1..Len(elementary_flows) :
                          /\ elementary_flows[k].elementaryExchangeId = e
                          /\ elementary_flows[k].fileId = c }
                 O == { k \in 1..Len(outflows) : outflows[k].index = c }
             IN  /\ (E = {} /\ ~nan2null) => F[e, c].nan
                 /\ (E = {} /\ nan2null) => (~F[e, c].nan /\ F[e, c].n = 0)
                 /\ \A k \in E, o \in O :
                       Cardinality(E) = 1
                       => /\ ~F[e, c].nan
                          /\ F[e, c].n * outflows[o].amount
                                = elementary_flows[k].amount * F[e, c].d

\* C8 witness: A is built with positive_waste off for a consumer of negative
\* outflow that has an input flow, and some other entry of A has no flow
C8_Witness ==
    /\ "AF" \in built /\ ~positive_waste
    /\ \E k \in 1..Len(inflows), o \in 1..Len(outflows) :
          /\ outflows[o].index = inflows[k].fileId
          /\ outflows[o].amount < 0
          /\ SupplierKey(inflows[k]) \in IndexOf(PRO)
          /\ ~A[SupplierKey(inflows[k]), inflows[k].fileId].nan
    /\ \E rc \in DOMAIN A : \A k \in 1..Len(inflows) :
          <<SupplierKey(inflows[k]), inflows[k].fileId>> # rc

\* C9: with positive_waste on, A[r, c] is the input-flow amount times the sign
\* of the outflow of the supplier r over the absolute outflow amount of c, and
\* F[e, c] the elementary amount over the absolute outflow amount of c.
C9_PositiveWasteConvention ==
    ("AF" \in built /\ positive_waste)
    => /\ \A r \in IndexOf(PRO), c \in IndexOf(PRO) :
             LET K == { k \in 1..Len(inflows) :
                          /\ inflows[k].sourceActivityId = r[1]
                          /\ inflows[k].productId = r[2]
                          /\ inflows[k].fileId = c }
                 Oc == { k \in 1..Len(outflows) : outflows[k].index = c }
                 Or == { k \in 1..Len(outflows) : outflows[k].index = r }
             IN  \A k \in K, oc \in Oc, or \in Or :
                    /\ ~A[r, c].nan
                    /\ A[r, c].n * Abs(outflows[oc].amount)
                          = inflows[k].amount
                            * (IF outflows[or].amount < 0 THEN 0 - 1 ELSE 1)
                            * A[r, c].d
       /\ \A e \in Range(STR), c \in IndexOf(PRO) :
             LET E == { k \in 1..Len(elementary_flows) :
                          /\ elementary_flows[k].elementaryExchangeId = e
                          /\ elementary_flows[k].fileId = c }
                 O == { k \in 1..Len(outflows) : outflows[k].index = c }
             IN  \A k \in E, o \in O :
                    Cardinality(E) = 1
                    => /\ ~F[e, c].nan
                       /\ F[e, c].n * Abs(outflows[o].amount)
                             = elementary_flows[k].amount * F[e, c].d

\* C9 witness: A is built with positive_waste on, and a negative input flow
\* supplied by a process of negative outflow reads as a positive coefficient
C9_Witness ==
    /\ "AF" \in built /\ positive_waste
    /\ \E k \in 1..Len(inflows), o \in 1..Len(outflows) :
          /\ outflows[o].index = SupplierKey(inflows[k])
          /\ outflows[o].amount < 0
          /\ inflows[k].amount < 0
          /\ ~A[SupplierKey(inflows[k]), inflows[k].fileId].nan
          /\ A[SupplierKey(inflows[k]), inflows[k].fileId].n > 0

\* C10: scale_up_AF leaves A, F and the outflow table as they are, and gives
\* Z and G_pro the labels of A and F, with Z[r, c] = A[r, c] x productionVolume(c)
\* and G_pro[e, c] = F[e, c] x productionVolume(c), NaN wherever a factor is.
C10_ScaleUpByProductionVolume ==
    [][pc = "scale_up_AF"
       => /\ A' = A /\ F' = F /\ outflows' = outflows
          /\ pc' = "save_system"
             => /\ DOMAIN Z' = DOMAIN A
                /\ DOMAIN G_pro' = DOMAIN F
                /\ \A rc \in DOMAIN A :
                      LET O == { k \in 1..Len(outflows) : outflows[k].index = rc[2] }
                      IN  /\ (A[rc].nan \/ O = {}) => Z'[rc].nan
                          /\ \A o \in O :
                                LET q == outflows[o].productionVolume
                                IN  IF A[rc].nan \/ q.nan
                                    THEN Z'[rc].nan
                                    ELSE /\ ~Z'[rc].nan
                                         /\ Z'[rc].n * A[rc].d * q.d
                                               = A[rc].n * q.n * Z'[rc].d
                /\ \A ec \in DOMAIN F :
                      LET O == { k \in 1..Len(outflows) : outflows[k].index = ec[2] }
                      IN  /\ (F[ec].nan \/ O = {}) => G_pro'[ec].nan
                          /\ \A o \in O :
                                LET q == outflows[o].productionVolume
                                IN  IF F[ec].nan \/ q.nan
                                    THEN G_pro'[ec].nan
                                    ELSE /\ ~G_pro'[ec].nan
                                         /\ G_pro'[ec].n * F[ec].d * q.d
                                               = F[ec].n * q.n * G_pro'[ec].d]_vars

\* C10 witness: Z is built, and one of its entries is A's entry scaled by a
\* production volume other than 1
C10_Witness ==
    /\ "ZG" \in built
    /\ \E rc \in DOMAIN Z : ~Z[rc].nan /\ Z[rc] # A[rc]
    /\ \E rc \in DOMAIN Z : Z[rc].nan /\ ~A[rc].nan

\* C11: build_sut(make_untraceable=True) gives a U indexed by all products x
\* all activities whose cell [p, a] is the sum of the amounts of all use
\* entries of product p by activity a, whatever their supplier, the null
\* supplier included; a V and a G_act built before are rebuilt the same.
C11_UntraceableUse ==
    [][(pc = "build_sut" /\ make_untraceable')
       => /\ DOMAIN U' = Products \X Activities
          /\ \A p \in Products, a \in Activities :
                LET K == { k \in 1..Len(inflows) : /\ inflows[k].productId = p
                                                    /\ inflows[k].fileId[1] = a }
                IN  K # {} => /\ ~U'[p, a].nan
                              /\ U'[p, a].d = 1
                              /\ U'[p, a].n = SumAmounts(inflows, K)
          /\ "SUT" \in built => (V' = V /\ G_act' = G_act)]_vars

\* C11 witness: an untraceable U is built after a traceable one, and one of
\* its cells adds an entry of null supplier to an entry of a named supplier
C11_Witness ==
    /\ "SUT" \in built /\ make_untraceable /\ sutCalls = 2
    /\ DOMAIN U = Products \X Activities
    /\ \E j, k \in 1..Len(inflows) :
          /\ inflows[j].sourceActivityId = None
          /\ inflows[k].sourceActivityId # None
          /\ inflows[j].productId = inflows[k].productId
          /\ inflows[j].fileId[1] = inflows[k].fileId[1]
          /\ U[inflows[j].productId, inflows[j].fileId[1]].n
                = inflows[j].amount + inflows[k].amount

\* C12: save_system called with file_formats=None saves the system in every
\* format (Pandas, SparsePandas, SparseMatrix, csv) and returns without raising.
C12_SaveSystemAllFormats ==
    (pc \in {"done", "raised"} /\ file_formats # NoFormats /\ ~file_formats.given)
    => /\ pc = "done"
       /\ saved = {"Pandas", "SparsePandas", "SparseMatrix", "csv"}


\* C13: _updatenull_log runs the update and returns the number of null values of
\* the column before it minus the number after it; the update of
\* test_execute_log, which fills the null ids of foo from the lookup table fou,
\* changes no row and returns 0 when it is run a second time.
C13_UpdateNullLog ==
    [][(pc = "updatenull_log" /\ pc' = "updatenull_log")
       => /\ Len(changes') = Len(changes) + 1
          /\ changes'[Len(changes')] = NullCount(foo) - NullCount(foo')
          /\ \A k \in 1..Len(foo) : foo[k].anId # NullId => foo'[k] = foo[k]
          /\ Len(changes) >= 1 => (foo' = foo /\ changes'[Len(changes')] = 0)]_vars

\* two runs, the first of which filled a null id while another stayed null
C13_Witness ==
    /\ pc = "updatenull_log"
    /\ Len(changes) = 2
    /\ changes[1] = 1
    /\ changes[2] = 0
    /\ NullCount(foo) >= 1


\* the raw records of both vocabularies
RawRecords ==
    { LabelOfRaw(raw_inventory[k]) : k \in 1..Len(raw_inventory) }
    \cup { LabelOfRaw(raw_char[k]) : k \in 1..Len(raw_char) }

ResolverDone == pc \notin {"integrate_flows_withCAS", "integrate_flows_withoutCAS"}

\* C14: tag scoping.  Once the substance resolver has run over both
\* vocabularies, two raw records of the same name (whatever its case) and of
\* different tags do not have the same substance identity, with or without a cas
\* and whichever pass gave them their substance.
C14_TagScoping ==
    ResolverDone
    => \A r1, r2 \in RawRecords :
          (Like(r1.name, r2.name) /\ r1.tag # r2.tag /\ r1.substid # NullId)
          => r1.substid # r2.substid

\* a record of the inventory that has a cas and a record of the method that has
\* none, of the same name and of different tags, each with its substance
C14_Witness ==
    /\ ResolverDone
    /\ \E j \in 1..Len(raw_inventory), k \in 1..Len(raw_char) :
          /\ Like(raw_inventory[j].name, raw_char[k].name)
          /\ raw_inventory[j].tag # raw_char[k].tag
          /\ raw_inventory[j].cas # None
          /\ raw_char[k].cas = None
          /\ raw_inventory[j].substid # NullId
          /\ raw_char[k].substid # NullId
          /\ raw_inventory[j].substid # raw_char[k].substid

CharacterizeFlowsDone ==
    pc \in {"generate_characterized_extensions", "characterized", "arda_compatible"}

\* C16: after characterize_flows, every raw record of the inventory and of the
\* characterisation method has a substance identity or is a row of the
\* uncharacterized-flows audit file.
C16_ResolvedOrAudited ==
    CharacterizeFlowsDone
    => /\ \A k \in 1..Len(raw_inventory) :
             \/ raw_inventory[k].substid # NullId
             \/ \E u \in 1..Len(unchar_flow) :
                   /\ unchar_flow[u].dsid = raw_inventory[k].id
                   /\ unchar_flow[u].substid = NullId
                   /\ unchar_flow[u].name = raw_inventory[k].name
                   /\ unchar_flow[u].tag = raw_inventory[k].tag
       /\ \A k \in 1..Len(raw_char) :
             \/ raw_char[k].substid # NullId
             \/ \E u \in 1..Len(unchar_flow) :
                   /\ unchar_flow[u].dsid = None
                   /\ unchar_flow[u].substid = NullId
                   /\ unchar_flow[u].name = raw_char[k].name
                   /\ unchar_flow[u].name2 = raw_char[k].name2
                   /\ unchar_flow[u].tag = raw_char[k].tag
                   /\ unchar_flow[u].comp = raw_char[k].comp
                   /\ unchar_flow[u].subcomp = raw_char[k].subcomp
                   /\ unchar_flow[u].unit = raw_char[k].unit

\* a record without substance in each vocabulary, both in the audit file, next
\* to a record that has a substance
C16_Witness ==
    /\ CharacterizeFlowsDone
    /\ \E k \in 1..Len(raw_inventory) : raw_inventory[k].substid = NullId
    /\ \E k \in 1..Len(raw_char) : raw_char[k].substid = NullId
    /\ \E k \in 1..Len(raw_char) : raw_char[k].substid # NullId
    /\ \E u, v \in 1..Len(unchar_flow) :
          /\ unchar_flow[u].substid = NullId /\ unchar_flow[u].dsid # None
          /\ unchar_flow[v].substid = NullId /\ unchar_flow[v].dsid = None


\* the first stage of the cascade whose condition the flow and the factor meet
StageOfLink(l, f) == Least({ s \in 1..4 : StageMatch(l, f, s) })

ValuesOfKey(k) ==
    LET same == SelectRows(raw_char, LAMBDA j :
                    /\ raw_char[j].substid = raw_char[k].substid
                    /\ raw_char[j].comp = raw_char[k].comp
                    /\ raw_char[j].subcomp = raw_char[k].subcomp
                    /\ raw_char[j].unit = raw_char[k].unit
                    /\ raw_char[j].impactId = raw_char[k].impactId, 1)
    IN  [j \in 1..Len(same) |-> same[j].factorValue]

FactorsPopulated ==
    \/ pc \in {"characterisation_matching", "generate_characterized_extensions",
               "characterized", "arda_compatible"}
    \/ pc = "raised"

\* C18: when the records of the method give two values for one (substance,
\* compartment, subcompartment, unit, impact, method), the conflict is logged and
\* the first value alone is kept: the run goes on, and the factors table, the
\* links of obs2char and the cells of C carry the first value, no custom factor
\* being applied.
C18_FirstValueKept ==
    (FactorsPopulated /\ customLog = <<>>)
    => \A k \in 1..Len(raw_char) :
          (raw_char[k].substid # NullId /\ Cardinality(Range(ValuesOfKey(k))) > 1)
          => /\ pc # "raised"
             /\ factor_conflicts # {}
             /\ \A f \in 1..Len(factors) :
                   (/\ factors[f].substid = raw_char[k].substid
                    /\ factors[f].comp = raw_char[k].comp
                    /\ factors[f].subcomp = raw_char[k].subcomp
                    /\ factors[f].unit = raw_char[k].unit
                    /\ factors[f].impactId = raw_char[k].impactId)
                   => /\ factors[f].factorValue = ValuesOfKey(k)[1]
                      /\ \A o \in 1..Len(obs2char) :
                            obs2char[o].factorId = f
                            => /\ obs2char[o].factorValue = ValuesOfKey(k)[1]
                               /\ pc \in {"characterized", "arda_compatible"}
                                  => C.cell[obs2char[o].impactId, obs2char[o].flowId]
                                     = Num(ValuesOfKey(k)[1])

\* the table factors as the records of the method fill it, before any custom
\* factor
PopulatedFactors == InsertFactors(factors, FactorRows(raw_char))

\* the row is one the custom factor is for: its impact, compartment,
\* subcompartment and unit, and a substance that carries its name
TargetedBy(f, o) ==
    /\ f.impactId = o.impactID
    /\ f.comp = o.comp /\ f.subcomp = o.subcomp /\ f.unit = o.unit
    /\ \E n \in 1..Len(names) : Like(names[n].name, o.aName) /\ names[n].substid = f.substid

\* the custom factors create no row, change the value of the rows they are for
\* and of no other, and one that is for no row changes and logs nothing
TargetedRowsOnly ==
    /\ Len(factors') = Len(PopulatedFactors)
    /\ \A k \in 1..Len(PopulatedFactors) :
          factors'[k] # PopulatedFactors[k]
          => \E n \in 1..Len(custom_factors) :
                /\ TargetedBy(PopulatedFactors[k], custom_factors[n])
                /\ factors'[k] = [PopulatedFactors[k] EXCEPT
                                     !.factorValue = custom_factors[n].factorValue]
    /\ \A n \in 1..Len(custom_factors) :
          (\A k \in 1..Len(PopulatedFactors) :
              ~TargetedBy(PopulatedFactors[k], custom_factors[n]))
          => custom_factors[n] \notin Range(customLog')

\* C19 as stated: the custom factors are applied once the matching cascade has
\* run, and only to the rows they are for.
C19_OverridesAfterCascade ==
    [][pc = "finalize_labels_and_factors"
       => /\ TargetedRowsOnly
          /\ CharacterizeFlowsDone]_vars

\* C19, amended: the custom factors are applied when the factors table is filled,
\* before the matching cascade makes any link, and only to the rows they are for;
\* the links the cascade makes then carry the customized values.
C19_OverridesBeforeCascade ==
    [][/\ pc = "finalize_labels_and_factors"
          => /\ TargetedRowsOnly
             /\ obs2char = <<>> /\ obs2char' = <<>>
             /\ labels_out' = <<>>
       /\ pc = "characterisation_matching"
          => /\ factors' = factors
             /\ \A o \in 1..Len(obs2char') :
                   obs2char'[o].factorValue = factors[obs2char'[o].factorId].factorValue]_vars

\* a custom factor was applied to the one row it is for, another row of the same
\* impact kept its value, and the link of a flow carries the custom value
C19_Witness ==
    /\ CharacterizeFlowsDone
    /\ Len(customLog) = 1
    /\ \E f, g \in 1..Len(factors) :
          /\ factors[f].factorValue = customLog[1].factorValue
          /\ factors[f].subcomp = customLog[1].subcomp
          /\ factors[g].impactId = factors[f].impactId
          /\ factors[g].subcomp # factors[f].subcomp
          /\ factors[g].factorValue # customLog[1].factorValue
          /\ \E o \in 1..Len(obs2char) :
                /\ obs2char[o].factorId = f
                /\ obs2char[o].factorValue = customLog[1].factorValue

\* C20: after generate_characterized_extensions, and still after
\* make_compatible_with_arda, the row index of C is the index of IMP in its
\* order, the column index of C is the index of STR in its order, and the row
\* index of F is the index of STR.
C20_LabelsAligned ==
    pc \in {"characterized", "arda_compatible"}
    => /\ C.index = IMP
       /\ C.columns = STR
       /\ DOMAIN C.cell = Range(IMP) \X Range(STR)
       /\ RowsOf(F) = Range(STR)

\* after make_compatible_with_arda has changed the order of the impacts, with a
\* stressor and an impact that have a link and a stressor and an impact that have
\* none
C20_Witness ==
    /\ pc = "arda_compatible"
    /\ IMP # OrderedImpacts(Impacts)
    /\ C.index = IMP
    /\ obs2char # <<>>
    /\ \E e \in Range(STR) : \A o \in 1..Len(obs2char) : obs2char[o].flowId # e
    /\ \E m \in Range(IMP) : \A o \in 1..Len(obs2char) : obs2char[o].impactId # m
    /\ \E m \in Range(IMP), e \in Range(STR) : C.cell[m, e] # Num(0)


\* C21: every record of the method whose compartment, once normalized, is water
\* and whose name is 'Copper' in any case leaves read_characterisation, and so
\* enters the matching of substances, with name and name2 'Copper, ion'.
C21_CopperForcedToIon ==
    [][pc = "read_characterisation"
       => \A k \in 1..Len(raw_char) :
             (LowerTrim(raw_char[k].comp) = "water" /\ Like(raw_char[k].name, "copper"))
             => /\ raw_char'[k].name = "Copper, ion"
                /\ raw_char'[k].name2 = "Copper, ion"]_vars


\* the processes that produce the product of the flow, the markets among them,
\* and the markets and the producers of the geography of the consuming process
ProducersOf(aflow) == { k \in 1..Len(PRO) : PRO[k].productId = aflow.productId }
MarketsOf(aflow) == { k \in ProducersOf(aflow) : PRO[k].activityType = "1" }
LocalMarkets(aflow) ==
    { k \in 1..Len(PRO) : PRO[k].activityType = "1" /\ PRO[k].geography = aflow.geography }
LocalProducers(aflow) == { k \in ProducersOf(aflow) : PRO[k].geography = aflow.geography }
OneOfEach(aflow) ==
    Cardinality(ProducersOf(aflow)) = 2 /\ Cardinality(MarketsOf(aflow)) = 1

\* the flows of ordinary activities the resolver has handled in this run
HandledFlows ==
    IF unsourced_flows.merged /\ pc \in {"fix_flow_sources", "fix_missing_activities"}
    THEN { unsourced_flows.rows[j] :
             j \in { n \in 1..Len(unsourced_flows.rows) :
                       n < i /\ unsourced_flows.rows[n].activityType = "0" } }
    ELSE {}

ExactMatches(nms, r) ==
    { n \in 1..Len(nms) : /\ Like(r.name, nms[n].name) \/ Like(r.name2, nms[n].name)
                          /\ r.tag = nms[n].tag }

\* the rows of the name table that carry its tag and a name that a synonym pair
\* of the level relates, in either direction, to a name of the record
SynonymMatches(nms, r, level) ==
    { n \in 1..Len(nms) :
        /\ r.tag = nms[n].tag
        /\ \E s \in 1..Len(Synonyms) :
              /\ Synonyms[s].approximationLevel = level
              /\ \/ /\ Like(r.name, Synonyms[s].aName) \/ Like(r.name2, Synonyms[s].aName)
                    /\ Like(Synonyms[s].anotherName, nms[n].name)
                 \/ /\ Like(r.name, Synonyms[s].anotherName)
                       \/ Like(r.name2, Synonyms[s].anotherName)
                    /\ Like(Synonyms[s].aName, nms[n].name) }

SubstIdsOf(nms, K) == { nms[n].substid : n \in K }

\* the precedence of name matching for record r, which the pass leaves as r2,
\* given the name table and the number of substances the pass starts from
NamePrecedence(r, r2, nms, known) ==
    (r.cas = None /\ r.substid = NullId)
    => /\ ExactMatches(nms, r) # {}
          => r2.substid \in SubstIdsOf(nms, ExactMatches(nms, r))
       /\ ExactMatches(nms, r) = {}
          => \A l \in 1..Len(SynonymLevels) :
                (/\ SynonymMatches(nms, r, SynonymLevels[l]) # {}
                 /\ \A m \in 1..(l - 1) : SynonymMatches(nms, r, SynonymLevels[m]) = {})
                => r2.substid \in SubstIdsOf(nms, SynonymMatches(nms, r, SynonymLevels[l]))
       /\ r2.substid > known
          => /\ ExactMatches(nms, r) = {}
             /\ \A l \in 1..Len(SynonymLevels) :
                   SynonymMatches(nms, r, SynonymLevels[l]) = {}

\* C23: name matching of a record without cas follows a strict precedence.  In
\* _integrate_flows_withoutCAS, over the table of the method and then over the
\* table of the inventory, a record that the name table matches by (name, tag)
\* gets the substance of such a row, whatever the synonyms; one that only
\* synonyms match gets the substance of a match of the lowest level that has
\* one; and a record gets a substance made in the pass only when the name table
\* had no match of either kind for it.
C23_NameMatchingPrecedence ==
    [][pc = "integrate_flows_withoutCAS"
       => LET char == WithoutCAS(raw_char, substances, names)
          IN  /\ \A k \in 1..Len(raw_char) :
                    NamePrecedence(raw_char[k], raw_char'[k], names, Len(substances))
              /\ \A k \in 1..Len(raw_inventory) :
                    NamePrecedence(raw_inventory[k], raw_inventory'[k], char.names,
                                   Len(char.substances))]_vars

\* an exact match and a synonym match of different substances, or synonym
\* matches of two levels and different substances, were there for a record
\* without cas, and another record got a substance made in the pass
C23_Witness ==
    /\ pc = "finalize_labels_and_factors"
    /\ \E k \in 1..Len(raw_char) :
          /\ raw_char[k].cas = None
          /\ \/ /\ ExactMatches(names, raw_char[k]) # {}
                /\ SubstIdsOf(names, SynonymMatches(names, raw_char[k], 1))
                   \ SubstIdsOf(names, ExactMatches(names, raw_char[k])) # {}
                /\ raw_char[k].substid \in SubstIdsOf(names, ExactMatches(names, raw_char[k]))
             \/ /\ SubstIdsOf(names, SynonymMatches(names, raw_char[k], 2))
                   \ SubstIdsOf(names, SynonymMatches(names, raw_char[k], 1)) # {}
                /\ raw_char[k].substid
                   \in SubstIdsOf(names, SynonymMatches(names, raw_char[k], 1))
    /\ \E k \in 1..Len(raw_char) :
          /\ raw_char[k].cas = None
          /\ substances[raw_char[k].substid].cas = None


DeclaredSynonyms(x, y) ==
    \E s \in 1..Len(Synonyms) :
       \/ Like(x, Synonyms[s].aName) /\ Like(y, Synonyms[s].anotherName)
       \/ Like(y, Synonyms[s].aName) /\ Like(x, Synonyms[s].anotherName)

\* C28: two raw records without cas and with the same tag whose names the
\* synonym table declares synonyms of each other have the same substance once
\* the resolver has run, be they records of one table or of the two.
C28_SynonymsShareSubstance ==
    pc \in {"finalize_labels_and_factors", "characterisation_matching",
            "generate_characterized_extensions", "characterized", "arda_compatible"}
    => \A r1, r2 \in RawRecords :
          (/\ r1.cas = None /\ r2.cas = None
           /\ r1.tag = r2.tag
           /\ DeclaredSynonyms(r1.name, r2.name))
          => r1.substid = r2.substid

\* C25: over any sequence of runs on one system directory, a run loads the
\* flows or the labels from a pickle only when prefer_pickles is set and the
\* pickle exists, and a run that has got both has either loaded both from the
\* pickles or extracted both afresh
C25_CacheAllOrNothing ==
    [][/\ ("flows" \in loaded' /\ "flows" \notin loaded)
            => (prefer_pickles /\ flowsPickle # <<>>)
       /\ ("labels" \in loaded' /\ "labels" \notin loaded)
            => (prefer_pickles /\ labelsPickle # <<>>)
       /\ (pc = "get_labels" /\ pc' = "find_unsourced_flows")
            => loaded' \in {{}, {"flows", "labels"}}]_vars

ExplicitPairs ==
    { <<datasetInflows[k].sourceActivityId, datasetInflows[k].productId>> :
        k \in { j \in 1..Len(datasetInflows) :
                  datasetInflows[j].sourceActivityId # None } }

AfterFixMissing(infl, pro, outfl) ==
    LET miss == SortedIds(MissingActivities(infl, pro))
    IN  [inflows |-> infl,
         PRO |-> WithDummyLabels(pro, miss),
         outflows |-> WithDummyOutflows(outfl, miss)]

\* C29: __fix_missing_activities is idempotent.  On the tables a completed run
\* leaves, a second run finds no missing (supplier, product) pair and leaves
\* the input flows, the process labels and the outflows as they are; the first
\* run changes no input flow, no existing process label and no existing outflow.
C29_FixMissingIdempotent ==
    [][(pc = "fix_missing_activities" /\ pc' = "complement_labels")
       => /\ MissingActivities(inflows', PRO') = {}
          /\ AfterFixMissing(inflows', PRO', outflows')
               = [inflows |-> inflows', PRO |-> PRO', outflows |-> outflows']
          /\ inflows' = inflows
          /\ Len(PRO') >= Len(PRO) /\ SubSeq(PRO', 1, Len(PRO)) = PRO
          /\ Len(outflows') >= Len(outflows)
          /\ SubSeq(outflows', 1, Len(outflows)) = outflows]_vars

\* a run has inserted placeholders for the pairs it found missing
C29_Witness ==
    /\ pc = "complement_labels"
    /\ missing_activities # {}
    /\ \A m \in missing_activities :
          \E k \in 1..Len(PRO) : /\ PRO[k].comment = "DUMMY PRODUCTION"
                                 /\ PRO[k].activityId = m[1]
                                 /\ PRO[k].productId = m[2]

====
